---- MODULE Spec2Model ----
(***************************************************************************)
(* Verification model of the weather-bot trading core: the RiskManager      *)
(* (src/risk/risk_manager.py), the TradingEngine / TradingEventLoop halt    *)
(* propagation (src/app/services), the task scheduler loop, the             *)
(* OrderMonitor (src/execution/order_monitor.py), the PositionTracker       *)
(* (src/execution/position_tracker.py) and the strategy calculators         *)
(* (src/strategy: PositionSizer, DiversificationFilter, EdgeCalculator).    *)
(*                                                                         *)
(* Money is in whole dollars, time in minutes since Monday 2018-01-01       *)
(* 00:00 UTC (a non-leap year whose 1 January is a Monday, so that          *)
(* weekday() = day mod 7).                                                  *)
(***************************************************************************)
EXTENDS Integers, Sequences, FiniteSets, TLC

VARIABLES
    now,          \* datetime.utcnow(), in minutes
    risk,         \* RiskManager.state of a stand-alone RiskManager
    ledger,       \* history: per day, the sum of the realized_pnl passed to update_pnl
    n_updates,    \* history: number of update_pnl calls
    manual_ops,   \* history: number of manual controls used so far
    last_op,      \* history: the latest step and what it saw
    test_mode,          \* TradingEngine.test_mode
    engine_status,      \* TradingEngine.status
    engine_is_halted,   \* TradingEngine.is_halted
    engine_rm,          \* TradingEngine._risk_manager, None before initialize()
    loop_rm,            \* TradingEventLoop._risk_manager, None before initialize()
    loop_state,         \* TradingEventLoop: "idle", "running", or "stopping" (stop requested)
    loop_paused,        \* TradingEventLoop._pause_event is cleared
    engine_positions,   \* len(TradingEngine._positions)
    eng_hist,           \* history: counters and what the latest trade step saw
    calc,               \* the engine's strategy calculators: the latest call and its result
    feed,               \* TradingEventLoop._price_feed: the PriceFeed and its receive task
    clock,              \* datetime.utcnow() of the scheduler, in seconds
    tasks,              \* TradingEventLoop.tasks: name -> ScheduledTask
    sched_pc,           \* where _run_loop is: "off", "starting", "test", "wait", "woken",
                        \* "run", "task", "sleep", "done"
    due_tasks,          \* _run_loop: the sorted due tasks not yet begun in this tick
    current_task,       \* _execute_task: the task being awaited, or None
    cycle_start,        \* _run_loop: cycle_start
    wake_at,            \* _run_loop: when asyncio.sleep(sleep_time) returns
    sched_hist,         \* history: counters and what happened in the current tick
    orders,             \* OrderMonitor._orders: order id -> Order
    venue,              \* executor._simulated_orders: per order id None or the venue's record
    timed_out,          \* the orders whose expires_at or timeout has passed
    pollers,            \* per poller: where its _check_orders is
    running,            \* the poller that is running between two suspension points
    order_hist,         \* history: callback deliveries and the latest processed report
    positions,          \* PositionTracker._positions, in insertion order
    checker,            \* where _check_resolutions of the price update loop is
    pos_hist            \* history: what the tracker's callbacks passed to update_pnl

riskVars == <<risk, ledger, n_updates, manual_ops, last_op>>

engineVars == <<test_mode, calc, feed, engine_status, engine_is_halted, engine_rm, loop_rm,
                loop_state, loop_paused, engine_positions, eng_hist>>

schedVars == <<clock, tasks, sched_pc, due_tasks, current_task, cycle_start, wake_at,
               sched_hist>>

orderVars == <<orders, venue, timed_out, pollers, running, order_hist>>

trackerVars == <<positions, checker, pos_hist>>

vars == <<now, riskVars, engineVars, schedVars, orderVars, trackerVars>>

----------------------------------------------------------------------------
(* Bounds of the model *)

MaxDays == 3
MaxUpdates == 2
MaxManual == 2
MaxEngineDays == 1
MaxEngineEvents == 4
MaxClock == 6
MaxErrors == 1
MaxSlow == 1
MaxSchedControls == 2
MaxCycles == 2
MaxOrders == 1
MaxPositions == 2
MaxPortfolio == 2
EdgeMargin == 1
MaxMembers == 2
MaxFeedCalls == 3
MaxLosses == 2
MaxPriorErrors == 3

(* Program constants *)

InitialBankroll == 100
MaxDailyLossPct == 10
MaxWeeklyLossPct == 25
MaxMonthlyLossPct == 40
MaxSingleTrade == 10
MinSingleTrade == 1
MinHoursBeforeResolution == 12
CooldownAfterLossMinutes == 30

----------------------------------------------------------------------------
(* Calendar: what datetime.replace / weekday / timedelta compute *)

MinPerDay == 24 * 60

MonthLengths == <<31, 28, 31, 30, 31, 30, 31, 31, 30, 31, 30, 31>>

RECURSIVE CumDays(_)
CumDays(m) == IF m = 0 THEN 0 ELSE CumDays(m - 1) + MonthLengths[m]

DayOf(t) == t \div MinPerDay

\* timestamp.replace(hour=0, minute=0, second=0, microsecond=0)
DayStart(t) == DayOf(t) * MinPerDay

\* timestamp - timedelta(days=timestamp.weekday()), at 00:00
WeekStart(t) == (DayOf(t) - (DayOf(t) % 7)) * MinPerDay

\* timestamp.replace(day=1, hour=0, ...)
MonthStart(t) ==
    LET d == DayOf(t)
        m == CHOOSE k \in 0..11 : CumDays(k) <= d /\ d < CumDays(k + 1)
    IN  CumDays(m) * MinPerDay

\* The horizon starts on Sunday 29 April: a week starts the day after (still in
\* April) and a month the day after that
FirstDay == CumDays(4) - 2

\* The instants of a day the clock is observed at
MinutesOfDay == {0}

Days == FirstDay..(FirstDay + MaxDays)

Times == {d * MinPerDay + m : d \in Days, m \in MinutesOfDay}

Deltas == {-40, -5, 4}

\* <<size, resolution_date - now in minutes>> of the trades put to validate_trade
TradeInputs == {<<0, 7 * MinPerDay>>, <<5, 7 * MinPerDay>>, <<11, 7 * MinPerDay>>,
                <<5, 6 * 60>>}

None == <<>>
Some(x) == <<x>>

\* PriceFeed.__init__: the feed as constructed.  pc is where the feed's
\* coroutines are: "new" (never connected), "recv" (the receive task awaits
\* recv), "sleep" (_attempt_reconnect awaits its backoff sleep), "resub"
\* (connect awaits a send of _resubscribe), "gave_up" (_attempt_reconnect has
\* ended without a connection).  sent is the set of tokens for which a
\* subscription was sent on the current connection.
NewFeed ==
    [status |-> "disconnected", reconnect_count |-> 0, subscribed |-> {}, sent |-> {},
     pc |-> "new", by |-> "none", used |-> 0, yielded |-> {}, added |-> {}, delay |-> 0,
     hist |-> [attempts |-> 0, calls |-> 0, losses |-> 0, raced |-> FALSE,
               last |-> "none"]]

----------------------------------------------------------------------------
(* RiskManager *)

HaltConditions == {"none", "daily_loss", "weekly_loss", "monthly_loss", "manual"}

\* RiskManager.__init__ at time t
NewRiskState(t) ==
    [ daily_pnl |-> 0, weekly_pnl |-> 0, monthly_pnl |-> 0, total_pnl |-> 0,
      daily_start |-> DayStart(t), weekly_start |-> WeekStart(t),
      monthly_start |-> MonthStart(t),
      is_halted |-> FALSE, halt_condition |-> "none",
      halt_reason |-> None, halt_time |-> None,
      last_loss_time |-> None, consecutive_losses |-> 0,
      daily_trades |-> 0, winning_trades |-> 0, losing_trades |-> 0 ]

max_daily == (InitialBankroll * MaxDailyLossPct) \div 100
max_weekly == (InitialBankroll * MaxWeeklyLossPct) \div 100
max_monthly == (InitialBankroll * MaxMonthlyLossPct) \div 100

TriggerHalt(s, condition, reason, t) ==
    [s EXCEPT !.is_halted = TRUE, !.halt_condition = condition,
              !.halt_reason = Some(reason), !.halt_time = Some(t)]

\* Variant: only the flag is cleared
ClearHalt_FlagOnly(s) ==
    [s EXCEPT !.is_halted = FALSE]

ClearHalt(s) ==
    [s EXCEPT !.is_halted = FALSE, !.halt_condition = "none",
              !.halt_reason = None, !.halt_time = None]

\* Variant: the daily rollover leaves a daily-loss halt standing
DailyRollover_KeepsHalt(s, t) ==
    IF DayStart(t) > s.daily_start
    THEN [s EXCEPT !.daily_pnl = 0, !.daily_trades = 0, !.daily_start = DayStart(t)]
    ELSE s

\* Variant: the daily rollover advances the period start but keeps the P&L
DailyRollover_KeepsPnl(s, t) ==
    IF DayStart(t) > s.daily_start
    THEN LET r == [s EXCEPT !.daily_trades = 0, !.daily_start = DayStart(t)]
         IN  IF r.halt_condition = "daily_loss" THEN ClearHalt(r) ELSE r
    ELSE s

DailyRollover(s, t) ==
    IF DayStart(t) > s.daily_start
    THEN LET r == [s EXCEPT !.daily_pnl = 0, !.daily_trades = 0,
                            !.daily_start = DayStart(t)]
         IN  IF r.halt_condition = "daily_loss" THEN ClearHalt(r) ELSE r
    ELSE s

\* Variant: the weekly rollover compares against the daily period start
WeeklyRollover_WrongStart(s, t) ==
    IF WeekStart(t) > s.daily_start
    THEN LET r == [s EXCEPT !.weekly_pnl = 0, !.weekly_start = WeekStart(t)]
         IN  IF r.halt_condition = "weekly_loss" THEN ClearHalt(r) ELSE r
    ELSE s

WeeklyRollover(s, t) ==
    IF WeekStart(t) > s.weekly_start
    THEN LET r == [s EXCEPT !.weekly_pnl = 0, !.weekly_start = WeekStart(t)]
         IN  IF r.halt_condition = "weekly_loss" THEN ClearHalt(r) ELSE r
    ELSE s

MonthlyRollover(s, t) ==
    IF MonthStart(t) > s.monthly_start
    THEN [s EXCEPT !.monthly_pnl = 0, !.monthly_start = MonthStart(t)]
    ELSE s

CheckPeriodRollovers(s, t) ==
    MonthlyRollover(WeeklyRollover(DailyRollover(s, t), t), t)

\* Variant: the limits are tested from the longest period to the shortest
CheckHaltConditions_MonthlyFirst(s, t) ==
    IF s.is_halted THEN s
    ELSE IF s.monthly_pnl <= -max_monthly THEN TriggerHalt(s, "monthly_loss", "monthly", t)
    ELSE IF s.weekly_pnl <= -max_weekly THEN TriggerHalt(s, "weekly_loss", "weekly", t)
    ELSE IF s.daily_pnl <= -max_daily THEN TriggerHalt(s, "daily_loss", "daily", t)
    ELSE s

CheckHaltConditions(s, t) ==
    IF s.is_halted THEN s
    ELSE IF s.daily_pnl <= -max_daily THEN TriggerHalt(s, "daily_loss", "daily", t)
    ELSE IF s.weekly_pnl <= -max_weekly THEN TriggerHalt(s, "weekly_loss", "weekly", t)
    ELSE IF s.monthly_pnl <= -max_monthly THEN TriggerHalt(s, "monthly_loss", "monthly", t)
    ELSE s

UpdatePnl(s, realized_pnl, t) ==
    LET r == CheckPeriodRollovers(s, t)
        p == [r EXCEPT !.daily_pnl = @ + realized_pnl,
                       !.weekly_pnl = @ + realized_pnl,
                       !.monthly_pnl = @ + realized_pnl,
                       !.total_pnl = @ + realized_pnl,
                       !.daily_trades = @ + 1]
        c == IF realized_pnl >= 0
             THEN [p EXCEPT !.winning_trades = @ + 1, !.consecutive_losses = 0]
             ELSE [p EXCEPT !.losing_trades = @ + 1, !.last_loss_time = Some(t),
                            !.consecutive_losses = @ + 1]
    IN  CheckHaltConditions(c, t)

\* Variant: the cooldown still holds at the minute it ends
InCooldown_Inclusive(s, t) ==
    /\ CooldownAfterLossMinutes > 0
    /\ s.last_loss_time # None
    /\ t <= s.last_loss_time[1] + CooldownAfterLossMinutes

InCooldown(s, t) ==
    /\ CooldownAfterLossMinutes > 0
    /\ s.last_loss_time # None
    /\ t < s.last_loss_time[1] + CooldownAfterLossMinutes

\* can_trade returns (bool, reason) and leaves the rolled-over state behind
CanTrade(s, t) ==
    LET r == CheckPeriodRollovers(s, t)
    IN  IF r.is_halted
        THEN [state |-> r, ok |-> FALSE,
              reason |-> IF r.halt_reason # None THEN r.halt_reason[1] ELSE "halted"]
        ELSE IF InCooldown(r, t)
        THEN [state |-> r, ok |-> FALSE, reason |-> "cooldown"]
        ELSE [state |-> r, ok |-> TRUE, reason |-> "allowed"]

\* resolution_in: resolution_date - current_time, in minutes
ValidateTrade(s, size, resolution_in, t) ==
    LET c == CanTrade(s, t)
    IN  IF ~c.ok THEN [state |-> c.state, valid |-> FALSE, reason |-> c.reason]
        ELSE IF size > MaxSingleTrade
        THEN [state |-> c.state, valid |-> FALSE, reason |-> "max"]
        ELSE IF size < MinSingleTrade
        THEN [state |-> c.state, valid |-> FALSE, reason |-> "min"]
        ELSE IF resolution_in < MinHoursBeforeResolution * 60
        THEN [state |-> c.state, valid |-> FALSE, reason |-> "resolution"]
        ELSE [state |-> c.state, valid |-> TRUE, reason |-> "validated"]

TriggerManualHalt(s, t) == TriggerHalt(s, "manual", "manual", t)

RiskClearHalt(s, force) ==
    IF ~s.is_halted THEN [state |-> s, success |-> TRUE]
    ELSE IF s.halt_condition = "monthly_loss" /\ ~force
    THEN [state |-> s, success |-> FALSE]
    ELSE [state |-> ClearHalt(s), success |-> TRUE]

ResetDailyPnl(s, t) ==
    LET r == [s EXCEPT !.daily_pnl = 0, !.daily_trades = 0, !.daily_start = DayStart(t)]
    IN  IF r.halt_condition = "daily_loss" THEN ClearHalt(r) ELSE r

----------------------------------------------------------------------------
(* TradingEventLoop: the scheduled tasks.  clock is in seconds. *)

\* TaskPriority: auto() numbers the members from 1
CRITICAL == 1
HIGH == 2
NORMAL == 3
LOW == 4

\* _register_default_tasks, in registration order (the order of self.tasks)
TaskOrder == <<"risk_check", "price_update", "order_monitor", "market_scan",
               "forecast_update", "trading_cycle", "status_broadcast", "metrics_log">>

TaskNames == {TaskOrder[i] : i \in 1..Len(TaskOrder)}

IntervalSeconds ==
    [n \in TaskNames |->
        CASE n = "risk_check" -> 10
          [] n = "price_update" -> 30
          [] n = "order_monitor" -> 15
          [] n = "market_scan" -> 300
          [] n = "forecast_update" -> 900
          [] n = "trading_cycle" -> 120
          [] n = "status_broadcast" -> 5
          [] n = "metrics_log" -> 60]

Priority ==
    [n \in TaskNames |->
        CASE n = "risk_check" -> CRITICAL
          [] n \in {"price_update", "order_monitor"} -> HIGH
          [] n \in {"market_scan", "forecast_update", "trading_cycle"} -> NORMAL
          [] n \in {"status_broadcast", "metrics_log"} -> LOW]

\* ScheduledTask defaults
TaskMaxRetries == 3
RetryDelaySeconds == 5
TickInterval == 1

Min(a, b) == IF a < b THEN a ELSE b
Max(a, b) == IF a > b THEN a ELSE b

\* register_task at time t
NewTask(t) ==
    [last_run |-> None, next_run |-> t, run_count |-> 0, error_count |-> 0,
     enabled |-> TRUE]

\* _get_due_tasks: the enabled tasks with now >= next_run, in the order of self.tasks
GetDueTasks(ts, t) ==
    SelectSeq(TaskOrder, LAMBDA n : n \in DOMAIN ts /\ ts[n].enabled /\ t >= ts[n].next_run)

\* Variant: the due tasks are sorted by descending priority value
SortByPriority_Reversed(due) ==
    SelectSeq(due, LAMBDA n : Priority[n] = LOW) \o
    SelectSeq(due, LAMBDA n : Priority[n] = NORMAL) \o
    SelectSeq(due, LAMBDA n : Priority[n] = HIGH) \o
    SelectSeq(due, LAMBDA n : Priority[n] = CRITICAL)

\* due_tasks.sort(key=lambda t: t.priority.value): list.sort is stable
SortByPriority(due) ==
    SelectSeq(due, LAMBDA n : Priority[n] = CRITICAL) \o
    SelectSeq(due, LAMBDA n : Priority[n] = HIGH) \o
    SelectSeq(due, LAMBDA n : Priority[n] = NORMAL) \o
    SelectSeq(due, LAMBDA n : Priority[n] = LOW)

\* Variant: the next run is counted from the time the task was due
TaskSucceeded_FromDueTime(task, n, t) ==
    [task EXCEPT !.last_run = Some(t), !.next_run = @ + IntervalSeconds[n],
                 !.run_count = @ + 1]

\* _execute_task, the task returned at time t
TaskSucceeded(task, n, t) ==
    [task EXCEPT !.last_run = Some(t), !.next_run = t + IntervalSeconds[n],
                 !.run_count = @ + 1]

\* Variant: a failed task is counted but not scheduled again
TaskFailed_NoReschedule(task, t) ==
    [task EXCEPT !.error_count = @ + 1]

\* _execute_task, the task raised at time t
TaskFailed(task, t) ==
    [task EXCEPT !.error_count = @ + 1,
                 !.next_run = t + RetryDelaySeconds * Min(task.error_count + 1, TaskMaxRetries)]

SchedConstructed ==
    /\ clock = 0
    /\ tasks = <<>>
    /\ sched_pc = "off"
    /\ due_tasks = <<>>
    /\ current_task = None
    /\ cycle_start = 0
    /\ wake_at = 0
    /\ sched_hist = [cycles |-> 0, errors |-> 0, slow |-> 0, controls |-> 0,
                     tick_due |-> {}, started |-> {}, finished |-> {}, stamped |-> {}]

----------------------------------------------------------------------------
(* OrderMonitor.  One coroutine runs at a time: running names the poller that *)
(* is between two suspension points; the only awaits of the monitor that can  *)
(* suspend are the on_fill callback (it awaits the websocket broadcast) and   *)
(* the sleep of the monitoring loop.                                          *)

OrderIds == 1..MaxOrders

\* The pollers: the scheduler's order_monitor task and OrderMonitor._monitoring_loop
Pollers == {"task", "loop"}

\* Order.size in dollars, Order.price in cents per token, and the dollars by
\* which the venue fills at a time
OrderSize == 10
OrderPrice == 50
FillStep == 5

TerminalStatuses == {"filled", "cancelled", "expired", "rejected"}

\* Order.is_complete
IsComplete(order) == order.status \in TerminalStatuses

\* Order(...) as add_order receives it
NewOrder ==
    [status |-> "pending", filled_size |-> 0, filled_quantity |-> 0,
     average_fill_price |-> 0, fill_events |-> <<>>]

\* get_open_orders, in the order of self._orders
RECURSIVE OpenOrdersFrom(_, _)
OpenOrdersFrom(os, i) ==
    IF i > MaxOrders THEN <<>>
    ELSE (IF i \in DOMAIN os /\ ~IsComplete(os[i]) THEN <<i>> ELSE <<>>)
         \o OpenOrdersFrom(os, i + 1)

GetOpenOrders(os) == OpenOrdersFrom(os, 1)

\* status_map.get(new_status_str, order.status)
MapStatus(status_str, order) ==
    IF status_str \in {"open", "pending", "filled", "partially_filled", "cancelled",
                       "expired", "rejected"}
    THEN status_str ELSE order.status

\* Variant: the fill is appended but the local filled_size is left as it was
ApplyFill_NoRecord(order, reported) ==
    [order EXCEPT !.fill_events = Append(@, reported - order.filled_size)]

\* Variant: filled_quantity is the quantity of the last fill alone
ApplyFill_LastQuantity(order, reported) ==
    LET fill_amount == reported - order.filled_size
        q == (fill_amount * 100) \div OrderPrice
    IN  [order EXCEPT !.fill_events = Append(@, fill_amount),
                      !.filled_size = reported,
                      !.filled_quantity = q,
                      !.average_fill_price = IF q > 0 THEN (reported * 100) \div q ELSE @]

\* _process_order_update, "Check for fills": the venue reports filled_size reported
ApplyFill(order, reported) ==
    LET fill_amount == reported - order.filled_size
        quantity == (fill_amount * 100) \div OrderPrice
        q == order.filled_quantity + quantity
    IN  [order EXCEPT !.fill_events = Append(@, fill_amount),
                      !.filled_size = reported,
                      !.filled_quantity = q,
                      !.average_fill_price = IF q > 0 THEN (reported * 100) \div q ELSE @]

\* _process_order_update, "Update status"
ApplyStatus(order, old_status, new_status) ==
    IF new_status # old_status THEN [order EXCEPT !.status = new_status] ELSE order

\* the on_complete callback is awaited by "Update status"
Completes(old_status, new_status) ==
    new_status # old_status /\ new_status \in TerminalStatuses

\* PolymarketExecutor.cancel_order on the simulated orders v
ExecutorCancel(v, o) ==
    IF test_mode /\ v[o] # None THEN [v EXCEPT ![o] = Some([@[1] EXCEPT !.status = "cancelled"])]
    ELSE v

IdlePoller == [pc |-> "idle", snapshot |-> <<>>, old_status |-> "none", new_status |-> "none"]

OrdersConstructed ==
    /\ orders = <<>>
    /\ venue = [o \in OrderIds |-> None]
    /\ timed_out = {}
    /\ pollers = [p \in Pollers |-> IdlePoller]
    /\ running = "none"
    /\ order_hist = [on_fill |-> [o \in OrderIds |-> 0],
                     on_complete |-> [o \in OrderIds |-> 0],
                     timeout_cancels |-> {},
                     report |-> None]

----------------------------------------------------------------------------
(* PositionTracker.  Prices are in cents per token, as Order.price is. *)

PositionStatuses == {"open", "closing", "closed", "expired"}

\* TrackedPosition(...) as _handle_order_complete builds it from order o, a BUY
PositionFromOrder(o, order) ==
    [order |-> o, side |-> "YES", quantity |-> order.filled_quantity,
     size |-> order.filled_size, entry_price |-> order.average_fill_price,
     current_price |-> 0, due |-> FALSE, status |-> "open", unrealized_pnl |-> 0,
     realized_pnl |-> 0]

\* PositionTracker.add_position
AddPosition(ps, position) ==
    Append(ps, IF position.current_price = 0
               THEN [position EXCEPT !.current_price = position.entry_price]
               ELSE position)

\* _handle_order_complete
OnComplete(ps, o, order) ==
    IF order.status = "filled" THEN AddPosition(ps, PositionFromOrder(o, order)) ELSE ps

\* the end of "Update status": on_complete is awaited when the order is complete
DeliverComplete(ps, o, order, old_status, new_status) ==
    IF Completes(old_status, new_status) THEN OnComplete(ps, o, order) ELSE ps

\* get_open_positions, as the set of their places in _positions
OpenPositions(ps) == {i \in DOMAIN ps : ps[i].status = "open"}

\* an order of OrderSize dollars that the venue filled at once
FilledOrder == ApplyStatus(ApplyFill(NewOrder, OrderSize), "pending", "filled")

\* The prices the venue quotes, and the sides of a position
Prices == {5, 50, 95}
PositionSides == {"YES", "NO"}

\* TrackedPosition(...) of OrderSize dollars bought at OrderPrice
NewTrackedPosition(side) ==
    [order |-> 0, side |-> side, quantity |-> (OrderSize * 100) \div OrderPrice,
     size |-> OrderSize, entry_price |-> OrderPrice,
     current_price |-> 0, due |-> FALSE, status |-> "open", unrealized_pnl |-> 0,
     realized_pnl |-> 0]

\* get_open_positions, in the order of self._positions, from place i on
RECURSIVE OpenPositionsFrom(_, _)
OpenPositionsFrom(ps, i) ==
    IF i > Len(ps) THEN <<>>
    ELSE (IF ps[i].status = "open" THEN <<i>> ELSE <<>>) \o OpenPositionsFrom(ps, i + 1)

\* _check_resolutions: the open positions with now >= resolution_date
DuePositions(ps) == SelectSeq(OpenPositionsFrom(ps, 1), LAMBDA i : ps[i].due)

\* TrackedPosition.calculate_unrealized_pnl, in dollars
CalculateUnrealizedPnl(position) ==
    IF position.current_price <= 0 \/ position.entry_price <= 0 THEN 0
    ELSE IF position.side = "YES"
    THEN ((position.current_price - position.entry_price) * position.quantity) \div 100
    ELSE ((position.entry_price - position.current_price) * position.quantity) \div 100

\* _update_position_price: the executor's midpoint is price
UpdatePositionPrice(position, price) ==
    LET quoted == [position EXCEPT !.current_price = price]
    IN  [quoted EXCEPT !.unrealized_pnl = CalculateUnrealizedPnl(quoted)]

\* Variant: the outcome is the side of one half the price is on
ResolutionOutcome_NearerSide(position) ==
    IF position.current_price >= 50 THEN "YES" ELSE "NO"

\* _check_market_resolution: the outcome read from the final price, if any
ResolutionOutcome(position) ==
    IF position.current_price >= 95 THEN "YES"
    ELSE IF position.current_price <= 5 THEN "NO"
    ELSE "none"

\* _handle_resolution up to its callback
HandleResolution(position, outcome) ==
    [position EXCEPT
        !.status = "expired",
        !.realized_pnl = IF position.side = outcome
                         THEN ((100 - position.entry_price) * position.quantity) \div 100
                         ELSE 0 - position.size,
        !.unrealized_pnl = 0]

\* close_position of an open position up to its callback; exit_price 0 stands
\* for an exit_price that is not given (exit_price or position.current_price)
ClosePositionAt(position, exit_price) ==
    LET exit == IF exit_price = 0 THEN position.current_price ELSE exit_price
    IN  [position EXCEPT
            !.status = "closed",
            !.realized_pnl = IF position.side = "YES"
                             THEN ((exit - position.entry_price) * position.quantity) \div 100
                             ELSE ((position.entry_price - exit) * position.quantity) \div 100,
            !.unrealized_pnl = 0]

\* The history after a callback passed realized_pnl of position i to update_pnl
Delivered(h, i, realized_pnl) ==
    [delivered |-> h.delivered + realized_pnl, calls |-> [h.calls EXCEPT ![i] = @ + 1]]

TrackerConstructed ==
    /\ positions = <<>>
    /\ checker = [pc |-> "idle", snapshot |-> <<>>]
    /\ pos_hist = [delivered |-> 0, calls |-> [i \in 1..MaxPositions |-> 0]]

----------------------------------------------------------------------------
(* The stand-alone RiskManager driven by its callers *)

\* cause_in: halt_condition when the call was made; cause_chk: halt_condition when
\* update_pnl ran its halt check (after its rollover), "none" for the other calls
Op(name, cause_in, cause_chk) ==
    [op |-> name, cause_in |-> cause_in, cause_chk |-> cause_chk]

\* A RiskManager constructed at the start of the horizon
RiskConstructed ==
    /\ now \in {t \in Times : DayOf(t) = FirstDay}
    /\ risk = NewRiskState(now)
    /\ ledger = [d \in Days |-> 0]
    /\ n_updates = 0
    /\ manual_ops = 0
    /\ last_op = Op("init", "none", "none")

\* TradingEngine.__init__ and TradingEventLoop.__init__
EngineConstructed ==
    /\ engine_status = "stopped"
    /\ engine_is_halted = FALSE
    /\ engine_rm = None
    /\ loop_rm = None
    /\ loop_state = "idle"
    /\ loop_paused = FALSE
    /\ engine_positions = 0
    /\ eng_hist = [events |-> 0, created |-> FALSE, loop_halted |-> FALSE, resolves_in |-> 0]

Init ==
    /\ RiskConstructed
    /\ test_mode = FALSE
    /\ EngineConstructed
    /\ SchedConstructed
    /\ OrdersConstructed
    /\ TrackerConstructed
    /\ calc = None
    /\ feed = NewFeed

\* The clock moves on
Advance ==
    /\ \E t \in Times : t > now /\ now' = t
    /\ last_op' = Op("advance", risk.halt_condition, "none")
    /\ UNCHANGED <<risk, ledger, n_updates, manual_ops, engineVars, schedVars, orderVars, trackerVars>>

RiskUpdatePnl ==
    /\ n_updates < MaxUpdates
    /\ \E d \in Deltas :
        /\ risk' = UpdatePnl(risk, d, now)
        /\ ledger' = [ledger EXCEPT ![DayOf(now)] = @ + d]
    /\ n_updates' = n_updates + 1
    /\ last_op' = Op("update_pnl", risk.halt_condition,
                     CheckPeriodRollovers(risk, now).halt_condition)
    /\ UNCHANGED <<now, manual_ops, engineVars, schedVars, orderVars, trackerVars>>

RiskCanTrade ==
    /\ risk' = CanTrade(risk, now).state
    /\ last_op' = Op("can_trade", risk.halt_condition, "none")
    /\ UNCHANGED <<now, ledger, n_updates, manual_ops, engineVars, schedVars, orderVars, trackerVars>>

RiskValidateTrade ==
    /\ \E trade \in TradeInputs :
        risk' = ValidateTrade(risk, trade[1], trade[2], now).state
    /\ last_op' = Op("validate_trade", risk.halt_condition, "none")
    /\ UNCHANGED <<now, ledger, n_updates, manual_ops, engineVars, schedVars, orderVars, trackerVars>>

RiskTriggerManualHalt ==
    /\ manual_ops < MaxManual
    /\ risk' = TriggerManualHalt(risk, now)
    /\ manual_ops' = manual_ops + 1
    /\ last_op' = Op("trigger_manual_halt", risk.halt_condition, "none")
    /\ UNCHANGED <<now, ledger, n_updates, engineVars, schedVars, orderVars, trackerVars>>

RiskClearHaltCmd ==
    /\ manual_ops < MaxManual
    /\ \E force \in BOOLEAN :
        /\ risk' = RiskClearHalt(risk, force).state
        /\ last_op' = Op(IF force THEN "clear_halt_force" ELSE "clear_halt",
                         risk.halt_condition, "none")
    /\ manual_ops' = manual_ops + 1
    /\ UNCHANGED <<now, ledger, n_updates, engineVars, schedVars, orderVars, trackerVars>>

RiskResetDailyPnl ==
    /\ manual_ops < MaxManual
    /\ risk' = ResetDailyPnl(risk, now)
    /\ manual_ops' = manual_ops + 1
    /\ last_op' = Op("reset_daily_pnl", risk.halt_condition, "none")
    /\ UNCHANGED <<now, ledger, n_updates, engineVars, schedVars, orderVars, trackerVars>>

Next ==
    \/ Advance
    \/ RiskUpdatePnl
    \/ RiskCanTrade
    \/ RiskValidateTrade
    \/ RiskTriggerManualHalt
    \/ RiskClearHaltCmd
    \/ RiskResetDailyPnl

Spec == Init /\ [][Next]_vars

----------------------------------------------------------------------------
(* Properties of the RiskManager *)

RECURSIVE SumLedger(_, _)
SumLedger(l, S) ==
    IF S = {} THEN 0
    ELSE LET d == CHOOSE x \in S : TRUE IN l[d] + SumLedger(l, S \ {d})

AnyBreached(s) ==
    \/ s.daily_pnl <= -max_daily
    \/ s.weekly_pnl <= -max_weekly
    \/ s.monthly_pnl <= -max_monthly

EarliestBreached(s) ==
    IF s.daily_pnl <= -max_daily THEN "daily_loss"
    ELSE IF s.weekly_pnl <= -max_weekly THEN "weekly_loss"
    ELSE IF s.monthly_pnl <= -max_monthly THEN "monthly_loss"
    ELSE "none"

RiskCalls == {"update_pnl", "can_trade", "validate_trade"}

\* C3 as stated: whenever update_pnl leaves a period P&L at or below its limit,
\* the next can_trade at the same instant refuses and halt_condition is the
\* earliest-listed breached limit, from every state.
C3_AsStated ==
    (last_op.op = "update_pnl" /\ AnyBreached(risk)) =>
        /\ ~CanTrade(risk, now).ok
        /\ CanTrade(risk, now).state.halt_condition = EarliestBreached(risk)

\* C3: whenever update_pnl leaves a period P&L at or below its limit, the next
\* can_trade at the same instant refuses; halt_condition is the earliest-listed
\* breached limit when no halt was in effect at update_pnl's halt check, and the
\* cause of the halt already in effect otherwise.
C3_HaltOnBreach ==
    (last_op.op = "update_pnl" /\ AnyBreached(risk)) =>
        /\ ~CanTrade(risk, now).ok
        /\ CanTrade(risk, now).state.is_halted
        /\ CanTrade(risk, now).state.halt_condition =
              IF last_op.cause_chk = "none" THEN EarliestBreached(risk)
              ELSE last_op.cause_chk

C3_Witness ==
    /\ last_op.op = "update_pnl"
    /\ last_op.cause_chk = "none"
    /\ risk.daily_pnl <= -max_daily
    /\ risk.monthly_pnl <= -max_monthly
    /\ risk.halt_condition = "daily_loss"

\* C4 as stated: once halt_condition is MONTHLY_LOSS, every step other than
\* clear_halt(force=True) leaves the manager halted with that cause.
C4_MonthlySticky ==
    [][(risk.halt_condition = "monthly_loss" /\ last_op'.op # "clear_halt_force")
         => (risk'.is_halted /\ risk'.halt_condition = "monthly_loss")]_vars

\* The single update_pnl(-40) on a fresh manager, followed by rollovers only
S3Scenario ==
    /\ n_updates = 1
    /\ manual_ops = 0
    /\ risk.total_pnl = -40

C6_AsStated ==
    [][(risk.halt_condition = "daily_loss" /\ last_op'.op \in {"can_trade", "update_pnl"})
         => IF DayStart(now) > risk.daily_start
            THEN risk'.daily_pnl = 0 /\ ~risk'.is_halted /\ risk'.halt_condition = "none"
            ELSE risk'.is_halted /\ risk'.halt_condition = "daily_loss"]_vars

\* C6: a DAILY_LOSS halt survives every can_trade / update_pnl of the same UTC
\* day; the first can_trade on a later day leaves daily_pnl = 0 and the manager
\* not halted; the first update_pnl on a later day drops the old halt and
\* restarts daily_pnl at its own delta, and is halted afterwards exactly when
\* the new sums breach a limit, with the earliest-listed breached limit as cause.
C6_DailyHaltRollover ==
    [][(risk.halt_condition = "daily_loss" /\ last_op'.op \in {"can_trade", "update_pnl"})
         => IF DayStart(now) > risk.daily_start
            THEN IF last_op'.op = "can_trade"
                 THEN /\ risk'.daily_pnl = 0
                      /\ ~risk'.is_halted
                      /\ risk'.halt_condition = "none"
                 ELSE /\ risk'.daily_pnl = ledger'[DayOf(now)] - ledger[DayOf(now)]
                      /\ risk'.is_halted = AnyBreached(risk')
                      /\ risk'.halt_condition = EarliestBreached(risk')
            ELSE risk'.is_halted /\ risk'.halt_condition = "daily_loss"]_vars

C6_Witness ==
    /\ last_op.op = "update_pnl"
    /\ last_op.cause_in = "daily_loss"
    /\ last_op.cause_chk = "none"
    /\ risk.daily_pnl > -max_daily
    /\ risk.halt_condition = "weekly_loss"

DaysOfWeekOf(t) == {d \in Days : WeekStart(d * MinPerDay) = WeekStart(t)}
DaysOfMonthOf(t) == {d \in Days : MonthStart(d * MinPerDay) = MonthStart(t)}

\* C7: after any sequence of update_pnl / can_trade / validate_trade calls (no
\* manual control), right after a call at time now the daily, weekly and monthly
\* P&L are the sums of the deltas recorded in the day, week and month of now,
\* and total_pnl is the sum of all deltas.
C7_PeriodSums ==
    (manual_ops = 0 /\ last_op.op \in RiskCalls) =>
        /\ risk.daily_pnl = ledger[DayOf(now)]
        /\ risk.weekly_pnl = SumLedger(ledger, DaysOfWeekOf(now))
        /\ risk.monthly_pnl = SumLedger(ledger, DaysOfMonthOf(now))
        /\ risk.total_pnl = SumLedger(ledger, Days)

C7_Witness ==
    /\ manual_ops = 0
    /\ last_op.op \in RiskCalls
    /\ n_updates = 2
    /\ risk.daily_pnl # risk.weekly_pnl
    /\ risk.weekly_pnl # risk.monthly_pnl
    /\ risk.monthly_pnl # risk.total_pnl

----------------------------------------------------------------------------
(* TradingEngine and TradingEventLoop: two RiskManagers and the halt flag *)

\* The sizes of manual trades
ManualSizes == {5, 11}

\* The minutes from the trade to the resolution of its market: one hour, a week
MarketResolvesIn == {60, 7 * MinPerDay}

\* TradingEngine.execute_trade with risk manager rm (None before initialize)
\* and halt flag halted; its resolution_date is always utcnow() + 7 days.
\* In live mode the executor has no place_order: the AttributeError is caught.
ExecuteTrade(rm, halted, size, t) ==
    LET v == ValidateTrade(rm[1], size, 7 * MinPerDay, t)
        rm2 == IF rm # None THEN Some(v.state) ELSE rm
    IN  IF rm # None /\ ~v.valid THEN [rm |-> rm2, created |-> FALSE]
        ELSE IF halted THEN [rm |-> rm2, created |-> FALSE]
        ELSE IF rm # None /\ ~test_mode THEN [rm |-> rm2, created |-> FALSE]
        ELSE [rm |-> rm2, created |-> TRUE]

\* is_halted of the loop's RiskManager once the rollover due at t is applied
LoopHalted(t) == loop_rm # None /\ CheckPeriodRollovers(loop_rm[1], t).is_halted

\* The history after a step that uses k of the budget of events and is no trade
Used(k) ==
    [events |-> eng_hist.events + k, created |-> FALSE, loop_halted |-> FALSE, resolves_in |-> 0]

Budget == eng_hist.events < MaxEngineEvents

TasksRun == loop_state = "running" /\ ~loop_paused

\* TradingEngine.start: initialize() builds a new RiskManager, start_event_loop
\* initializes the global loop (a second RiskManager, a new PositionTracker) and
\* schedules loop.start(), which returns at once when the loop is still running.
\* When initialize() catches an exception start() returns False and leaves the
\* status as it was.
EngineStart ==
    /\ engine_status # "active"
    /\ Budget
    /\ \E ok \in BOOLEAN :
        IF ok
        THEN /\ engine_status' = "active"
             /\ engine_rm' = Some(NewRiskState(now))
             /\ loop_rm' = Some(NewRiskState(now))
             /\ positions' = <<>>
             /\ loop_state' = IF loop_state = "idle" THEN "running" ELSE loop_state
        ELSE UNCHANGED <<engine_status, engine_rm, loop_rm, positions, loop_state>>
    /\ eng_hist' = Used(1)
    /\ UNCHANGED <<now, riskVars, schedVars, orderVars, checker, pos_hist, test_mode, calc, feed, engine_is_halted, loop_paused, engine_positions>>

EnginePause ==
    /\ Budget
    /\ engine_status' = "paused"
    /\ loop_paused' = IF loop_rm # None THEN TRUE ELSE loop_paused
    /\ eng_hist' = Used(1)
    /\ UNCHANGED <<now, riskVars, schedVars, orderVars, trackerVars, test_mode, calc, feed, engine_is_halted, engine_rm, loop_rm,
                   loop_state, engine_positions>>

EngineResume ==
    /\ Budget
    /\ engine_status' = "active"
    /\ loop_paused' = IF loop_rm # None THEN FALSE ELSE loop_paused
    /\ eng_hist' = Used(1)
    /\ UNCHANGED <<now, riskVars, schedVars, orderVars, trackerVars, test_mode, calc, feed, engine_is_halted, engine_rm, loop_rm,
                   loop_state, engine_positions>>

EngineStop ==
    /\ Budget
    /\ engine_status' = "stopped"
    /\ loop_state' = IF loop_state = "running" THEN "stopping" ELSE loop_state
    /\ eng_hist' = Used(1)
    /\ UNCHANGED <<now, riskVars, schedVars, orderVars, trackerVars, test_mode, calc, feed, engine_is_halted, engine_rm, loop_rm,
                   loop_paused, engine_positions>>

\* _run_loop sees the stop event and start() runs its finally block
LoopExit ==
    /\ loop_state = "stopping"
    /\ loop_state' = "idle"
    /\ eng_hist' = Used(0)
    /\ UNCHANGED <<now, riskVars, schedVars, orderVars, trackerVars, test_mode, calc, feed, engine_status, engine_is_halted, engine_rm,
                   loop_rm, loop_paused, engine_positions>>

\* _handle_order_complete for a filled order: PositionTracker.add_position
HandleOrderComplete ==
    /\ loop_rm # None
    /\ loop_state # "idle"
    /\ Budget
    /\ positions' = OnComplete(positions, 0, FilledOrder)
    /\ eng_hist' = Used(1)
    /\ UNCHANGED <<now, riskVars, schedVars, orderVars, checker, pos_hist, test_mode, calc, feed, engine_status, engine_is_halted, engine_rm,
                   loop_rm, loop_state, loop_paused, engine_positions>>

\* PositionTracker.close_position -> _handle_position_closed
HandlePositionClosed ==
    /\ Budget
    /\ \E i \in OpenPositions(positions), d \in Deltas :
        /\ positions' = [positions EXCEPT ![i].status = "closed", ![i].realized_pnl = d]
        /\ loop_rm' = Some(UpdatePnl(loop_rm[1], d, now))
    /\ eng_hist' = Used(1)
    /\ UNCHANGED <<now, riskVars, schedVars, orderVars, checker, pos_hist, test_mode, calc, feed, engine_status, engine_is_halted, engine_rm,
                   loop_state, loop_paused, engine_positions>>

\* PositionTracker._handle_resolution -> _handle_market_resolution
HandleMarketResolution ==
    /\ loop_state # "idle"
    /\ Budget
    /\ \E i \in OpenPositions(positions), d \in Deltas :
        /\ positions' = [positions EXCEPT ![i].status = "expired", ![i].realized_pnl = d]
        /\ loop_rm' = Some(UpdatePnl(loop_rm[1], d, now))
    /\ eng_hist' = Used(1)
    /\ UNCHANGED <<now, riskVars, schedVars, orderVars, checker, pos_hist, test_mode, calc, feed, engine_status, engine_is_halted, engine_rm,
                   loop_state, loop_paused, engine_positions>>

\* _task_risk_check: copies can_trade() of the loop's RiskManager to the engine
TaskRiskCheck ==
    /\ TasksRun
    /\ LET c == CanTrade(loop_rm[1], now)
       IN  /\ loop_rm' = Some(c.state)
           /\ engine_is_halted' = ~c.ok
    /\ eng_hist' = Used(0)
    /\ UNCHANGED <<now, riskVars, schedVars, orderVars, trackerVars, test_mode, calc, feed, engine_status, engine_rm,
                   loop_state, loop_paused, engine_positions>>

\* _task_trading_cycle: can_trade() of the loop's RiskManager, then the status
\* test.  Step 2 calls calculate_position_size(..., model_agreement=...), a
\* parameter PositionSizer.calculate_position_size does not have: the TypeError
\* ends the task at the first pending opportunity, and with no pending
\* opportunity step 3 has nothing to execute.  No cycle calls execute_trade.
TaskTradingCycle ==
    /\ TasksRun
    /\ loop_rm' = Some(CanTrade(loop_rm[1], now).state)
    /\ eng_hist' = Used(0)
    /\ UNCHANGED <<now, riskVars, schedVars, orderVars, trackerVars, test_mode, calc, feed, engine_status,
                   engine_is_halted, engine_rm, loop_state, loop_paused, engine_positions>>

\* What a manual trade with result r leaves behind; resolves_in is the time to
\* the resolution of the market that was named in the call
ManualEffect(r, resolves_in) ==
    /\ engine_rm' = r.rm
    /\ engine_positions' = engine_positions + (IF r.created THEN 1 ELSE 0)
    /\ eng_hist' = [events |-> eng_hist.events + 1,
                    created |-> r.created,
                    loop_halted |-> LoopHalted(now),
                    resolves_in |-> resolves_in]

\* TradingEngine.execute_manual_trade (POST /trades/manual)
ExecuteManualTrade ==
    /\ Budget
    /\ \E size \in ManualSizes, resolves_in \in MarketResolvesIn :
        ManualEffect(ExecuteTrade(engine_rm, engine_is_halted, size, now), resolves_in)
    /\ UNCHANGED <<now, riskVars, schedVars, orderVars, trackerVars, test_mode, calc, feed, engine_status, engine_is_halted, loop_rm,
                   loop_state, loop_paused>>

\* TradingEngine.close_position: the position's unrealized_pnl is never updated
\* after its creation with 0.0
EngineClosePosition ==
    /\ engine_positions > 0
    /\ Budget
    /\ engine_rm' = IF engine_rm # None THEN Some(UpdatePnl(engine_rm[1], 0, now))
                    ELSE engine_rm
    /\ engine_positions' = engine_positions - 1
    /\ eng_hist' = Used(1)
    /\ UNCHANGED <<now, riskVars, schedVars, orderVars, trackerVars, test_mode, calc, feed, engine_status, engine_is_halted, loop_rm,
                   loop_state, loop_paused>>

\* TradingEngine.clear_halt
EngineClearHalt ==
    /\ Budget
    /\ \E force \in BOOLEAN :
        IF engine_rm # None
        THEN LET r == RiskClearHalt(engine_rm[1], force)
             IN  /\ engine_rm' = Some(r.state)
                 /\ engine_is_halted' = IF r.success THEN FALSE ELSE engine_is_halted
        ELSE /\ engine_rm' = engine_rm
             /\ engine_is_halted' = FALSE
    /\ eng_hist' = Used(1)
    /\ UNCHANGED <<now, riskVars, schedVars, orderVars, trackerVars, test_mode, calc, feed, engine_status, loop_rm,
                   loop_state, loop_paused, engine_positions>>

\* TradingEngine.reset_daily_pnl
EngineResetDailyPnl ==
    /\ Budget
    /\ engine_rm' = IF engine_rm # None THEN Some(ResetDailyPnl(engine_rm[1], now))
                    ELSE engine_rm
    /\ eng_hist' = Used(1)
    /\ UNCHANGED <<now, riskVars, schedVars, orderVars, trackerVars, test_mode, calc, feed, engine_status, engine_is_halted, loop_rm,
                   loop_state, loop_paused, engine_positions>>

\* The clock of the engine moves on
EngineAdvance ==
    /\ \E t \in Times : t > now /\ DayOf(t) <= FirstDay + MaxEngineDays /\ now' = t
    /\ eng_hist' = Used(0)
    /\ UNCHANGED <<riskVars, schedVars, orderVars, trackerVars, test_mode, calc, feed, engine_status, engine_is_halted, engine_rm, loop_rm,
                   loop_state, loop_paused, engine_positions>>

InitEngine ==
    /\ RiskConstructed
    /\ test_mode \in BOOLEAN
    /\ EngineConstructed
    /\ SchedConstructed
    /\ OrdersConstructed
    /\ TrackerConstructed
    /\ calc = None
    /\ feed = NewFeed

NextEngine ==
    \/ EngineAdvance
    \/ EngineStart
    \/ EnginePause
    \/ EngineResume
    \/ EngineStop
    \/ LoopExit
    \/ HandleOrderComplete
    \/ HandlePositionClosed
    \/ HandleMarketResolution
    \/ TaskRiskCheck
    \/ TaskTradingCycle
    \/ ExecuteManualTrade
    \/ EngineClosePosition
    \/ EngineClearHalt
    \/ EngineResetDailyPnl

SpecEngine == InitEngine /\ [][NextEngine]_vars

StatusStep ==
    \/ engine_status' = engine_status
    \/ EngineStart /\ engine_status = "stopped" /\ engine_status' = "active"
    \/ EnginePause /\ engine_status = "active" /\ engine_status' = "paused"
    \/ EngineResume /\ engine_status = "paused" /\ engine_status' = "active"
    \/ EngineStop /\ engine_status' = "stopped"

\* C17: the engine status changes only along STOPPED -> ACTIVE (start),
\* ACTIVE -> PAUSED (pause), PAUSED -> ACTIVE (resume) and any -> STOPPED (stop);
\* pause and resume never move a STOPPED engine to PAUSED or ACTIVE.
C17_StatusTransitions == [][StatusStep]_vars

----------------------------------------------------------------------------
(* TradingEventLoop: _run_loop *)

engineRest == <<test_mode, calc, feed, engine_status, engine_is_halted, engine_rm, loop_rm,
                engine_positions, eng_hist>>

\* The loop is at the test of its while statement: after start(), which
\* awaits the start of the execution components first, or after the sleep
AtWhileTest == sched_pc \in {"starting", "test"}

\* Another coroutine runs only while _run_loop is suspended in an await: in
\* start(), in an awaited task, in the sleep or in the pause wait
LoopSuspended == sched_pc \in {"starting", "task", "sleep", "wait", "woken"}

\* initialize() registers the default tasks, start() enters _run_loop
SchedStart ==
    /\ sched_pc = "off"
    /\ loop_state = "idle"
    /\ tasks' = [n \in TaskNames |-> NewTask(clock)]
    /\ loop_state' = "running"
    /\ sched_pc' = "starting"
    /\ UNCHANGED <<now, riskVars, engineRest, orderVars, trackerVars, loop_paused, clock, due_tasks, current_task,
                   cycle_start, wake_at, sched_hist>>

\* _run_loop, the lines after the pause wait: the due tasks are collected and sorted
CollectDue ==
    /\ due_tasks' = SortByPriority(GetDueTasks(tasks, clock))
    /\ sched_pc' = "run"
    /\ sched_hist' = [sched_hist EXCEPT
                         !.tick_due = {n \in TaskNames : tasks[n].enabled /\ clock >= tasks[n].next_run},
                         !.started = {}, !.finished = {}, !.stamped = {}]

\* _run_loop, top of the while body: the stop event is not set and the pause
\* event is set, so that wait() returns without suspending
TickStart ==
    /\ AtWhileTest
    /\ loop_state = "running"
    /\ ~loop_paused
    /\ cycle_start' = clock
    /\ CollectDue
    /\ UNCHANGED <<now, riskVars, engineVars, orderVars, trackerVars, clock, tasks, current_task, wake_at>>

\* _run_loop, top of the while body: the stop event is not set and the pause
\* event is cleared, the loop is suspended in await self._pause_event.wait()
TickBlocked ==
    /\ AtWhileTest
    /\ loop_state = "running"
    /\ loop_paused
    /\ cycle_start' = clock
    /\ sched_pc' = "wait"
    /\ UNCHANGED <<now, riskVars, engineVars, orderVars, trackerVars, clock, tasks, due_tasks, current_task,
                   wake_at, sched_hist>>

\* the pause wait returns after resume() has set the event: the loop goes on
\* with the tick, the stop event is next tested in the for loop
TickResumed ==
    /\ sched_pc = "woken"
    /\ CollectDue
    /\ UNCHANGED <<now, riskVars, engineVars, orderVars, trackerVars, clock, tasks, current_task,
                   cycle_start, wake_at>>

\* the while test finds the stop event set: start() runs its finally block
SchedExit ==
    /\ AtWhileTest
    /\ loop_state = "stopping"
    /\ loop_state' = "idle"
    /\ sched_pc' = "done"
    /\ UNCHANGED <<now, riskVars, engineRest, orderVars, trackerVars, loop_paused, clock, tasks, due_tasks,
                   current_task, cycle_start, wake_at, sched_hist>>

\* for task in due_tasks: the stop event is not set, _execute_task awaits the task
TaskBegin ==
    /\ sched_pc = "run"
    /\ due_tasks # <<>>
    /\ loop_state = "running"
    /\ current_task' = Some(Head(due_tasks))
    /\ due_tasks' = Tail(due_tasks)
    /\ sched_pc' = "task"
    /\ sched_hist' = [sched_hist EXCEPT !.started = @ \cup {Head(due_tasks)}]
    /\ UNCHANGED <<now, riskVars, engineVars, orderVars, trackerVars, clock, tasks, cycle_start, wake_at>>

\* for task in due_tasks: the stop event is set, break
TaskBreak ==
    /\ sched_pc = "run"
    /\ due_tasks # <<>>
    /\ loop_state = "stopping"
    /\ due_tasks' = <<>>
    /\ UNCHANGED <<now, riskVars, engineVars, orderVars, trackerVars, clock, tasks, sched_pc, current_task,
                   cycle_start, wake_at, sched_hist>>

\* the awaited task returns
TaskReturn ==
    /\ sched_pc = "task"
    /\ LET n == current_task[1]
       IN  /\ tasks' = [tasks EXCEPT ![n] = TaskSucceeded(@, n, clock)]
           /\ sched_hist' = [sched_hist EXCEPT !.finished = @ \cup {n},
                                               !.stamped = @ \cup {n}]
    /\ current_task' = None
    /\ sched_pc' = "run"
    /\ UNCHANGED <<now, riskVars, engineVars, orderVars, trackerVars, clock, due_tasks, cycle_start, wake_at>>

\* the awaited task raises an Exception
TaskRaise ==
    /\ sched_pc = "task"
    /\ sched_hist.errors < MaxErrors
    /\ LET n == current_task[1]
       IN  /\ tasks' = [tasks EXCEPT ![n] = TaskFailed(@, clock)]
           /\ sched_hist' = [sched_hist EXCEPT !.finished = @ \cup {n},
                                               !.errors = @ + 1]
    /\ current_task' = None
    /\ sched_pc' = "run"
    /\ UNCHANGED <<now, riskVars, engineVars, orderVars, trackerVars, clock, due_tasks, cycle_start, wake_at>>

\* after the for loop: cycle statistics (total_cycles is counted up to
\* MaxCycles), then asyncio.sleep(max(0, tick - elapsed))
TickEnd ==
    /\ sched_pc = "run"
    /\ due_tasks = <<>>
    /\ wake_at' = clock + Max(0, TickInterval - (clock - cycle_start))
    /\ sched_pc' = "sleep"
    /\ sched_hist' = [sched_hist EXCEPT !.cycles = Min(@ + 1, MaxCycles)]
    /\ UNCHANGED <<now, riskVars, engineVars, orderVars, trackerVars, clock, tasks, due_tasks, current_task,
                   cycle_start>>

\* the sleep is over (the clock of the model stops at MaxClock: a sleep that
\* reaches past it ends there)
Wake ==
    /\ sched_pc = "sleep"
    /\ clock >= wake_at \/ clock = MaxClock
    /\ sched_pc' = "test"
    /\ UNCHANGED <<now, riskVars, engineVars, orderVars, trackerVars, clock, tasks, due_tasks, current_task,
                   cycle_start, wake_at, sched_hist>>

\* A second passes: while the loop sleeps or waits for resume, or (a bounded
\* number of times) while a task is awaited
ClockTick ==
    /\ clock < MaxClock
    /\ \/ sched_pc = "sleep" /\ clock < wake_at /\ sched_hist' = sched_hist
       \/ sched_pc = "wait" /\ sched_hist' = sched_hist
       \/ /\ sched_pc = "task"
          /\ sched_hist.slow < MaxSlow
          /\ sched_hist' = [sched_hist EXCEPT !.slow = @ + 1]
    /\ clock' = clock + 1
    /\ UNCHANGED <<now, riskVars, engineVars, orderVars, trackerVars, tasks, sched_pc, due_tasks, current_task,
                   cycle_start, wake_at>>

\* TradingEventLoop.stop
SchedStop ==
    /\ loop_state = "running"
    /\ LoopSuspended
    /\ sched_hist.controls < MaxSchedControls
    /\ loop_state' = "stopping"
    /\ sched_hist' = [sched_hist EXCEPT !.controls = @ + 1]
    /\ UNCHANGED <<now, riskVars, engineRest, orderVars, trackerVars, loop_paused, clock, tasks, sched_pc,
                   due_tasks, current_task, cycle_start, wake_at>>

\* TradingEventLoop.pause
SchedPause ==
    /\ loop_state # "idle"
    /\ LoopSuspended
    /\ sched_hist.controls < MaxSchedControls
    /\ loop_paused' = TRUE
    /\ sched_hist' = [sched_hist EXCEPT !.controls = @ + 1]
    /\ UNCHANGED <<now, riskVars, engineRest, orderVars, trackerVars, loop_state, clock, tasks, sched_pc,
                   due_tasks, current_task, cycle_start, wake_at>>

\* TradingEventLoop.resume: Event.set() wakes the loop when it is in the pause wait
SchedResume ==
    /\ loop_state # "idle"
    /\ LoopSuspended
    /\ sched_hist.controls < MaxSchedControls
    /\ loop_paused' = FALSE
    /\ sched_pc' = IF sched_pc = "wait" THEN "woken" ELSE sched_pc
    /\ sched_hist' = [sched_hist EXCEPT !.controls = @ + 1]
    /\ UNCHANGED <<now, riskVars, engineRest, orderVars, trackerVars, loop_state, clock, tasks,
                   due_tasks, current_task, cycle_start, wake_at>>

InitSched == Init

NextSched ==
    \/ SchedStart
    \/ TickStart
    \/ TickBlocked
    \/ TickResumed
    \/ SchedExit
    \/ TaskBegin
    \/ TaskBreak
    \/ TaskReturn
    \/ TaskRaise
    \/ TickEnd
    \/ Wake
    \/ ClockTick
    \/ SchedStop
    \/ SchedPause
    \/ SchedResume

SpecSched == InitSched /\ [][NextSched]_vars

\* The steps of the coroutine _run_loop and the passing of time.  asyncio runs
\* a coroutine that is ready, awaited tasks return, sleeps end; stop(), pause()
\* and resume() are calls of the environment and carry no fairness.
LoopStep ==
    \/ TickStart
    \/ TickBlocked
    \/ TickResumed
    \/ SchedExit
    \/ TaskBegin
    \/ TaskBreak
    \/ TaskReturn
    \/ TickEnd
    \/ Wake
    \/ ClockTick

SpecSchedFair == SpecSched /\ WF_vars(LoopStep)

\* C2: in every tick in which risk_check and trading_cycle are both due, once
\* trading_cycle has been started risk_check has returned or raised; and when
\* both wrote their last_run in that tick, risk_check.last_run is not later
\* than trading_cycle.last_run.
C2_RiskCheckFirst ==
    ({"risk_check", "trading_cycle"} \subseteq sched_hist.tick_due
        /\ "trading_cycle" \in sched_hist.started) =>
        /\ "risk_check" \in sched_hist.finished
        /\ ({"risk_check", "trading_cycle"} \subseteq sched_hist.stamped =>
                tasks["risk_check"].last_run[1] <= tasks["trading_cycle"].last_run[1])

C2_Witness ==
    /\ sched_hist.cycles > 0
    /\ {"risk_check", "trading_cycle"} \subseteq sched_hist.tick_due
    /\ {"risk_check", "trading_cycle"} \subseteq sched_hist.stamped
    /\ tasks["risk_check"].last_run[1] < tasks["trading_cycle"].last_run[1]

SeqToSet(q) == {q[i] : i \in DOMAIN q}

\* While a tick runs and stop() was not called, every task due in the tick has
\* been started or is still waiting in due_tasks
TickKeepsDueTasks ==
    (loop_state = "running" /\ sched_pc \in {"run", "task"}) =>
        sched_hist.started \cup SeqToSet(due_tasks) = sched_hist.tick_due

\* The step in which the awaited task raises
TaskRaised == sched_pc = "task" /\ sched_hist'.errors = sched_hist.errors + 1

\* What a raising task does to the loop, and what the loop does next
RaiseIsContained ==
    /\ sched_pc' = "done" => loop_state = "stopping"
    /\ TaskRaised =>
           /\ tasks'[current_task[1]].error_count = tasks[current_task[1]].error_count + 1
           /\ tasks'[current_task[1]].next_run > clock
           /\ sched_pc' = "run"
           /\ due_tasks' = due_tasks
    /\ (sched_pc = "run" /\ due_tasks # <<>> /\ loop_state = "running") =>
           \/ sched_pc' = "task" /\ current_task' = Some(Head(due_tasks))
                                 /\ due_tasks' = Tail(due_tasks)
           \/ sched_pc' = "run" /\ due_tasks' = due_tasks

\* C14: a task that raises never terminates the scheduler loop.  The loop ends
\* only at the while test after stop(); the step in which a task raises
\* increments the task's error_count, gives it a next_run in the future and
\* leaves the loop in the for loop with the remaining due tasks untouched; the
\* loop then starts the next due task, in order, so that every task due in the
\* tick is started unless stop() was called.
C14_TaskFailureContained == []TickKeepsDueTasks /\ [][RaiseIsContained]_vars

\* risk_check raised in the first tick, the last task of that tick ran after
\* it, and risk_check ran again in a later tick
C14_Witness ==
    /\ sched_pc # "off"
    /\ tasks["risk_check"].error_count = 1
    /\ tasks["risk_check"].run_count = 1
    /\ tasks["metrics_log"].run_count >= 1
    /\ tasks["metrics_log"].last_run[1] < tasks["risk_check"].last_run[1]

\* A step that starts a task
TaskStarts == sched_pc # "task" /\ sched_pc' = "task"

\* C15: after stop() on a running scheduler no further task is started, the
\* task in flight finishes, and the loop eventually exits (is_running becomes
\* false), whatever state the loop was in, a paused one included.
C15_StopExits ==
    /\ [][loop_state = "stopping" => ~TaskStarts]_vars
    /\ (loop_state = "stopping") ~> (current_task = None)
    /\ (loop_state = "stopping") ~> (loop_state = "idle" /\ sched_pc = "done")

\* C16: while the scheduler is paused (after pause() and before resume()) no
\* scheduled task begins execution, also when pause() is called while a tick
\* is running its due tasks.
C16_NoTaskBeginsPaused == [][loop_paused => ~TaskStarts]_vars

----------------------------------------------------------------------------
(* OrderMonitor: the coroutines *)

otherVars == <<now, riskVars, engineVars, schedVars, checker, pos_hist>>

NoReport == [order_hist EXCEPT !.report = None]

\* OrderMonitor.add_order; in test mode the executor holds the simulated order
AddOrder ==
    /\ running = "none"
    /\ \E o \in OrderIds :
        /\ o \notin DOMAIN orders
        /\ o - 1 \in DOMAIN orders \cup {0}
        /\ orders' = [i \in DOMAIN orders \cup {o} |-> IF i = o THEN NewOrder ELSE orders[i]]
        /\ venue' = [venue EXCEPT ![o] = IF test_mode
                                         THEN Some([status |-> "open", filled_size |-> 0])
                                         ELSE None]
    /\ order_hist' = NoReport
    /\ UNCHANGED <<otherVars, positions, timed_out, pollers, running>>

\* The venue fills a part of the order
VenueFill ==
    /\ running = "none"
    /\ \E o \in DOMAIN orders :
        /\ venue[o] # None
        /\ venue[o][1].status \in {"open", "partially_filled"}
        /\ LET f == venue[o][1].filled_size + FillStep
           IN  venue' = [venue EXCEPT ![o] =
                            Some([status |-> IF f >= OrderSize THEN "filled"
                                             ELSE "partially_filled",
                                  filled_size |-> f])]
    /\ order_hist' = NoReport
    /\ UNCHANGED <<otherVars, positions, orders, timed_out, pollers, running>>

\* The venue ends the order by itself
VenueClose ==
    /\ running = "none"
    /\ \E o \in DOMAIN orders, st \in {"cancelled", "expired", "rejected"} :
        /\ venue[o] # None
        /\ venue[o][1].status \in {"open", "partially_filled"}
        /\ venue' = [venue EXCEPT ![o] = Some([@[1] EXCEPT !.status = st])]
    /\ order_hist' = NoReport
    /\ UNCHANGED <<otherVars, positions, orders, timed_out, pollers, running>>

\* Time passes expires_at, or created_at + order_timeout, of an order
OrderTimesOut ==
    /\ running = "none"
    /\ \E o \in DOMAIN orders : o \notin timed_out /\ timed_out' = timed_out \cup {o}
    /\ order_hist' = NoReport
    /\ UNCHANGED <<otherVars, positions, orders, venue, pollers, running>>

\* _check_orders begins: the open orders are listed once
PollStart ==
    /\ running = "none"
    /\ \E p \in Pollers :
        /\ pollers[p].pc = "idle"
        /\ pollers' = [pollers EXCEPT ![p] = [IdlePoller EXCEPT !.pc = "orders",
                                                 !.snapshot = GetOpenOrders(orders)]]
        /\ running' = p
    /\ order_hist' = NoReport
    /\ UNCHANGED <<otherVars, positions, orders, venue, timed_out>>

\* The fill part of _process_order_update for order o, by poller p: the venue
\* reports more than is recorded; suspend tells whether the on_fill callback
\* suspends at its broadcast
PollFill(p, o, suspend) ==
    LET update == venue[o][1]
        old_status == orders[o].status
        new_status == MapStatus(update.status, orders[o])
        filled == ApplyFill(orders[o], update.filled_size)
    IN  /\ order_hist' = [order_hist EXCEPT
                             !.on_fill[o] = @ + 1,
                             !.on_complete[o] =
                                 IF ~suspend /\ Completes(old_status, new_status)
                                 THEN @ + 1 ELSE @,
                             !.report = Some([order |-> o, reported |-> update.filled_size,
                                              recorded |-> orders[o].filled_size])]
        /\ IF suspend
           THEN /\ orders' = [orders EXCEPT ![o] = filled]
                /\ pollers' = [pollers EXCEPT ![p].pc = "fill",
                                              ![p].old_status = old_status,
                                              ![p].new_status = new_status]
                /\ running' = "none"
                /\ positions' = positions
           ELSE /\ orders' = [orders EXCEPT ![o] = ApplyStatus(filled, old_status, new_status)]
                /\ pollers' = [pollers EXCEPT ![p].snapshot = Tail(@)]
                /\ running' = running
                /\ positions' = DeliverComplete(positions, o,
                                     ApplyStatus(filled, old_status, new_status),
                                     old_status, new_status)

\* _process_order_update for order o when the venue reports no new fill
PollNoFill(p, o) ==
    LET update == venue[o][1]
        old_status == orders[o].status
        new_status == MapStatus(update.status, orders[o])
    IN  /\ order_hist' = [order_hist EXCEPT
                             !.on_complete[o] =
                                 IF Completes(old_status, new_status) THEN @ + 1 ELSE @,
                             !.report = Some([order |-> o, reported |-> update.filled_size,
                                              recorded |-> orders[o].filled_size])]
        /\ orders' = [orders EXCEPT ![o] = ApplyStatus(@, old_status, new_status)]
        /\ positions' = DeliverComplete(positions, o,
                             ApplyStatus(orders[o], old_status, new_status),
                             old_status, new_status)
        /\ pollers' = [pollers EXCEPT ![p].snapshot = Tail(@)]
        /\ running' = running

\* for order in open_orders: _check_order_status(order)
PollOrder ==
    /\ running \in Pollers
    /\ pollers[running].pc = "orders"
    /\ pollers[running].snapshot # <<>>
    /\ LET p == running
           o == Head(pollers[p].snapshot)
       IN  IF venue[o] = None
           THEN /\ pollers' = [pollers EXCEPT ![p].snapshot = Tail(@)]
                /\ order_hist' = NoReport
                /\ UNCHANGED <<orders, running, positions>>
           ELSE IF venue[o][1].filled_size > orders[o].filled_size
           THEN \E suspend \in BOOLEAN : PollFill(p, o, suspend)
           ELSE PollNoFill(p, o)
    /\ UNCHANGED <<otherVars, venue, timed_out>>

\* the on_fill callback returns: "Update status" with the statuses read before it
PollResume ==
    /\ running = "none"
    /\ \E p \in Pollers :
        /\ pollers[p].pc = "fill"
        /\ LET o == Head(pollers[p].snapshot)
               old_status == pollers[p].old_status
               new_status == pollers[p].new_status
           IN  /\ orders' = [orders EXCEPT ![o] = ApplyStatus(@, old_status, new_status)]
               /\ positions' = DeliverComplete(positions, o,
                                    ApplyStatus(orders[o], old_status, new_status),
                                    old_status, new_status)
               /\ order_hist' = [order_hist EXCEPT
                                    !.on_complete[o] =
                                        IF Completes(old_status, new_status)
                                        THEN @ + 1 ELSE @,
                                    !.report = None]
        /\ pollers' = [pollers EXCEPT ![p] = [IdlePoller EXCEPT !.pc = "orders",
                                                 !.snapshot = Tail(pollers[p].snapshot)]]
        /\ running' = p
    /\ UNCHANGED <<otherVars, venue, timed_out>>

\* _check_orders of the scheduler's task returns
PollDone ==
    /\ running = "task"
    /\ pollers["task"].pc = "orders"
    /\ pollers["task"].snapshot = <<>>
    /\ pollers' = [pollers EXCEPT !["task"] = IdlePoller]
    /\ running' = "none"
    /\ order_hist' = NoReport
    /\ UNCHANGED <<otherVars, positions, orders, venue, timed_out>>

\* _handle_timeout for each open order in os that has timed out: EXPIRED, then
\* the executor's cancel_order; no on_timeout callback is registered
\* Variant: the order is marked EXPIRED, the executor is not called
RECURSIVE HandleTimeouts_NoCancel(_, _, _)
HandleTimeouts_NoCancel(os, v, open) ==
    IF open = <<>> THEN [orders |-> os, venue |-> v, cancel_calls |-> {}]
    ELSE LET o == Head(open)
         IN  IF o \in timed_out
             THEN HandleTimeouts_NoCancel([os EXCEPT ![o].status = "expired"], v, Tail(open))
             ELSE HandleTimeouts_NoCancel(os, v, Tail(open))

\* cancel_calls: the orders for which executor.cancel_order was called
RECURSIVE HandleTimeouts(_, _, _)
HandleTimeouts(os, v, open) ==
    IF open = <<>> THEN [orders |-> os, venue |-> v, cancel_calls |-> {}]
    ELSE LET o == Head(open)
         IN  IF o \in timed_out
             THEN LET rest == HandleTimeouts([os EXCEPT ![o].status = "expired"],
                                             ExecutorCancel(v, o), Tail(open))
                  IN  [rest EXCEPT !.cancel_calls = @ \cup {o}]
             ELSE HandleTimeouts(os, v, Tail(open))

\* _monitoring_loop after _check_orders: _check_timeouts, then the sleep
CheckTimeouts ==
    /\ running = "loop"
    /\ pollers["loop"].pc = "orders"
    /\ pollers["loop"].snapshot = <<>>
    /\ orders' = HandleTimeouts(orders, venue, GetOpenOrders(orders)).orders
    /\ venue' = HandleTimeouts(orders, venue, GetOpenOrders(orders)).venue
    /\ pollers' = [pollers EXCEPT !["loop"] = IdlePoller]
    /\ running' = "none"
    /\ order_hist' = [NoReport EXCEPT !.timeout_cancels = @ \cup
                         HandleTimeouts(orders, venue, GetOpenOrders(orders)).cancel_calls]
    /\ UNCHANGED <<otherVars, positions, timed_out>>

\* OrderMonitor.cancel_order
CancelOrder ==
    /\ running = "none"
    /\ \E o \in DOMAIN orders :
        /\ ~IsComplete(orders[o])
        /\ venue' = ExecutorCancel(venue, o)
        /\ orders' = [orders EXCEPT ![o].status = "cancelled"]
        /\ positions' = OnComplete(positions, o, [orders[o] EXCEPT !.status = "cancelled"])
        /\ order_hist' = [order_hist EXCEPT !.on_complete[o] = @ + 1, !.report = None]
    /\ UNCHANGED <<otherVars, timed_out, pollers, running>>

InitOrders ==
    /\ RiskConstructed
    /\ test_mode \in BOOLEAN
    /\ EngineConstructed
    /\ SchedConstructed
    /\ OrdersConstructed
    /\ TrackerConstructed
    /\ calc = None
    /\ feed = NewFeed

NextOrders ==
    \/ AddOrder
    \/ VenueFill
    \/ VenueClose
    \/ OrderTimesOut
    \/ PollStart
    \/ PollOrder
    \/ PollResume
    \/ PollDone
    \/ CheckTimeouts
    \/ CancelOrder

SpecOrders == InitOrders /\ [][NextOrders]_vars

\* C8 as stated: once the status of a monitored order is FILLED, CANCELLED,
\* EXPIRED or REJECTED, no step changes it.
C8_TerminalIsFinal ==
    [][\A o \in DOMAIN orders :
          IsComplete(orders[o]) => orders'[o].status = orders[o].status]_vars

\* C9 as stated: whenever no coroutine is in mid-flight, every order whose
\* status is terminal has had on_complete delivered exactly once, and no order
\* has had it delivered more than once.
C9_CompleteOnce ==
    \A o \in DOMAIN orders :
        /\ order_hist.on_complete[o] <= 1
        /\ (running = "none" /\ IsComplete(orders[o])) => order_hist.on_complete[o] = 1

----------------------------------------------------------------------------
(* PositionTracker: close_position and the resolution check of the price     *)
(* update loop.  The loop runs alone between two suspension points           *)
(* (checker.pc = "running"); it can be suspended in the broadcast of the     *)
(* resolution callback, and sleeps between two rounds.                       *)

trackerRest == <<now, riskVars, schedVars, orderVars, test_mode, calc, feed, engine_status,
                 engine_is_halted, engine_rm, loop_state, loop_paused, engine_positions,
                 eng_hist>>

\* TradingEventLoop.initialize: the RiskManager, the PositionTracker, the callbacks
LoopInitialize ==
    /\ loop_rm = None
    /\ loop_rm' = Some(NewRiskState(now))
    /\ positions' = <<>>
    /\ UNCHANGED <<trackerRest, checker, pos_hist>>

\* add_position
TrackPosition ==
    /\ loop_rm # None
    /\ checker.pc # "running"
    /\ Len(positions) < MaxPositions
    /\ \E side \in PositionSides :
        positions' = AddPosition(positions, NewTrackedPosition(side))
    /\ UNCHANGED <<trackerRest, loop_rm, checker, pos_hist>>

\* _update_position_price: the venue quotes a new price for an open position
PriceMoves ==
    /\ checker.pc # "running"
    /\ \E i \in OpenPositions(positions), price \in Prices :
        /\ price # positions[i].current_price
        /\ positions' = [positions EXCEPT ![i] = UpdatePositionPrice(@, price)]
    /\ UNCHANGED <<trackerRest, loop_rm, checker, pos_hist>>

\* Time passes the resolution_date of a position
ResolutionDatePasses ==
    /\ checker.pc # "running"
    /\ \E i \in DOMAIN positions :
        /\ ~positions[i].due
        /\ positions' = [positions EXCEPT ![i].due = TRUE]
    /\ UNCHANGED <<trackerRest, loop_rm, checker, pos_hist>>

\* _check_resolutions begins: now is read and the open positions are listed
CheckResolutionsStart ==
    /\ loop_rm # None
    /\ checker.pc = "idle"
    /\ checker' = [pc |-> "running", snapshot |-> DuePositions(positions)]
    /\ UNCHANGED <<trackerRest, loop_rm, positions, pos_hist>>

\* What _handle_resolution and _handle_market_resolution do to position i
ResolutionEffect(i, resolved) ==
    /\ positions' = [positions EXCEPT ![i] = resolved]
    /\ loop_rm' = Some(UpdatePnl(loop_rm[1], resolved.realized_pnl, now))
    /\ pos_hist' = Delivered(pos_hist, i, resolved.realized_pnl)

\* for position in ...: _check_market_resolution(position); suspend tells
\* whether the broadcast of the resolution callback suspends the loop
CheckResolution ==
    /\ checker.pc = "running"
    /\ checker.snapshot # <<>>
    /\ LET i == Head(checker.snapshot)
           outcome == ResolutionOutcome(positions[i])
       IN  IF outcome = "none"
           THEN /\ checker' = [checker EXCEPT !.snapshot = Tail(@)]
                /\ UNCHANGED <<positions, loop_rm, pos_hist>>
           ELSE /\ ResolutionEffect(i, HandleResolution(positions[i], outcome))
                /\ \E suspend \in BOOLEAN :
                    checker' = [pc |-> IF suspend THEN "suspended" ELSE "running",
                                snapshot |-> Tail(checker.snapshot)]
    /\ UNCHANGED trackerRest

\* the broadcast of the resolution callback returns
CheckResume ==
    /\ checker.pc = "suspended"
    /\ checker' = [checker EXCEPT !.pc = "running"]
    /\ UNCHANGED <<trackerRest, loop_rm, positions, pos_hist>>

\* _check_resolutions returns and the loop sleeps
CheckResolutionsDone ==
    /\ checker.pc = "running"
    /\ checker.snapshot = <<>>
    /\ checker' = [checker EXCEPT !.pc = "idle"]
    /\ UNCHANGED <<trackerRest, loop_rm, positions, pos_hist>>

\* PositionTracker.close_position and _handle_position_closed
ClosePosition ==
    /\ loop_rm # None
    /\ checker.pc # "running"
    /\ \E i \in DOMAIN positions, exit_price \in {0} \cup Prices :
        IF positions[i].status # "open"
        THEN UNCHANGED <<positions, loop_rm, pos_hist>>
        ELSE LET closed == ClosePositionAt(positions[i], exit_price)
             IN  /\ positions' = [positions EXCEPT ![i] = closed]
                 /\ loop_rm' = Some(UpdatePnl(loop_rm[1], closed.realized_pnl, now))
                 /\ pos_hist' = Delivered(pos_hist, i, closed.realized_pnl)
    /\ UNCHANGED <<trackerRest, checker>>

InitPositions == Init

NextPositions ==
    \/ LoopInitialize
    \/ TrackPosition
    \/ PriceMoves
    \/ ResolutionDatePasses
    \/ CheckResolutionsStart
    \/ CheckResolution
    \/ CheckResume
    \/ CheckResolutionsDone
    \/ ClosePosition

SpecPositions == InitPositions /\ [][NextPositions]_vars

\* C28: a position goes from OPEN to EXPIRED only when its resolution_date
\* has passed and its current_price is >= 0.95 (outcome YES) or <= 0.05
\* (outcome NO); it then has realized_pnl = (1 - entry_price) * quantity if
\* its side is the outcome and -size otherwise, and unrealized_pnl = 0; a
\* position checked at a price strictly between 0.05 and 0.95 stays OPEN.
C28_ResolutionRule ==
    [][\A i \in DOMAIN positions :
          LET old == positions[i]
              new == positions'[i]
              outcome == IF old.current_price >= 95 THEN "YES" ELSE "NO"
          IN  /\ (old.status = "open" /\ new.status = "expired") =>
                    /\ old.due
                    /\ old.current_price >= 95 \/ old.current_price <= 5
                    /\ new.realized_pnl =
                          IF old.side = outcome
                          THEN ((100 - old.entry_price) * old.quantity) \div 100
                          ELSE 0 - old.size
                    /\ new.unrealized_pnl = 0
              /\ (old.status = "open" /\ old.current_price > 5 /\ old.current_price < 95
                     /\ checker.pc = "running" /\ checker.snapshot # <<>>
                     /\ Head(checker.snapshot) = i) => new = old]_vars

\* A YES position and a NO position are both due at 0.95: the YES position has
\* just resolved as won (10 dollars on 20 tokens bought at 0.50), the NO
\* position is the next to be checked
C28_Witness ==
    /\ checker.pc = "running"
    /\ Len(positions) = 2
    /\ positions[1].side = "YES" /\ positions[1].status = "expired"
    /\ positions[1].realized_pnl = 10 /\ positions[1].unrealized_pnl = 0
    /\ positions[1].current_price = 95
    /\ checker.snapshot = <<2>>
    /\ positions[2].side = "NO" /\ positions[2].status = "open"
    /\ positions[2].current_price = 95 /\ positions[2].unrealized_pnl = 0 - 9

\* The positions that have left OPEN
ClosedPositions(ps) == {i \in DOMAIN ps : ps[i].status \in {"closed", "expired"}}

\* Sum of realized_pnl over the positions of ps whose place is in S
RECURSIVE SumRealized(_, _)
SumRealized(ps, S) ==
    IF S = {} THEN 0
    ELSE LET i == CHOOSE x \in S : TRUE
         IN  ps[i].realized_pnl + SumRealized(ps, S \ {i})

----------------------------------------------------------------------------
(* The strategy calculators.  Probabilities and prices are in percent, money *)
(* is in cents; a quotient is kept as the pair [n, d] of its numerator and   *)
(* its positive denominator, so that every comparison of the code is exact.  *)

calcRest == <<now, riskVars, schedVars, orderVars, trackerVars, test_mode, feed, engine_status,
              engine_is_halted, engine_rm, loop_rm, loop_state, loop_paused, engine_positions,
              eng_hist>>

RECURSIVE GCD(_, _)
GCD(a, b) == IF b = 0 THEN a ELSE GCD(b, a % b)

\* The quotient n / d (d > 0) in lowest terms
Frac(n, d) ==
    LET g == GCD(IF n < 0 THEN -n ELSE n, d)
    IN  [n |-> n \div g, d |-> d \div g]
FracLess(a, b) == a.n * b.d < b.n * a.d
FracLeq(a, b) == a.n * b.d <= b.n * a.d
FracMin(a, b) == IF FracLess(b, a) THEN b ELSE a

\* round(x, 2) of a non-negative amount x in cents: the nearest cent, a tie
\* going to the even cent
RoundCents(x) ==
    LET q == x.n \div x.d
        r == x.n % x.d
    IN  IF 2 * r < x.d THEN q
        ELSE IF 2 * r > x.d THEN q + 1
        ELSE IF q % 2 = 0 THEN q ELSE q + 1

\* POSITION_SIZING_CONFIG
kelly_fraction == 25
max_position_pct == 5
min_position == 100
max_position == 1000
\* calculate_position_size: max_exposure_pct or 0.75
DefaultMaxExposurePct == 75

\* calculate_kelly_fraction(probability, odds) with odds = (100 - price) / price:
\* (b * p - q) / b
CalculateKellyFraction(prob, price) ==
    IF prob <= 0 \/ prob >= 100 THEN Frac(0, 1)
    ELSE Frac((100 - price) * prob - (100 - prob) * price, (100 - price) * 100)

\* calculate_position_size, from "if position > remaining_exposure" on
CapByExposure(position, remaining) ==
    RoundCents(FracMin(position, remaining))

\* PositionSizer.calculate_position_size: the size of the PositionSize it returns
CalculatePositionSize(bankroll, forecast_prob, market_price, side, current_exposure) ==
    LET prob == IF side = "YES" THEN forecast_prob ELSE 100 - forecast_prob
        price == IF side = "YES" THEN market_price ELSE 100 - market_price
        full_kelly == CalculateKellyFraction(prob, price)
        position_pct == FracMin(Frac(full_kelly.n * kelly_fraction, full_kelly.d * 100),
                                Frac(max_position_pct, 100))
        position == Frac(bankroll * position_pct.n, position_pct.d)
        full_kelly_position == Frac(bankroll * full_kelly.n, full_kelly.d)
        raised == IF FracLess(position, Frac(min_position, 1))
                  THEN Frac(min_position, 1) ELSE position
        capped == FracMin(raised, Frac(max_position, 1))
        remaining == Frac(bankroll * DefaultMaxExposurePct - 100 * current_exposure, 100)
    IN  IF price <= 0 \/ price >= 100 THEN 0
        ELSE IF full_kelly.n <= 0 THEN 0
        ELSE IF FracLess(position, Frac(min_position, 1))
                /\ FracLess(full_kelly_position, Frac(min_position, 1)) THEN 0
        ELSE IF remaining.n <= 0 THEN 0
        ELSE CapByExposure(capped, remaining)

\* The inputs of the sizer
Bankrolls == {1000, 10000, 100000}
Percents == {0, 1, 5, 10, 30, 45, 50, 55, 70, 90, 95, 99, 100}
Exposures == {0, 700, 7450, 7500, 74000}
Sides == {"YES", "NO"}

\* The components as constructed, no calculator called yet
Constructed ==
    /\ RiskConstructed
    /\ test_mode = FALSE
    /\ EngineConstructed
    /\ SchedConstructed
    /\ OrdersConstructed
    /\ TrackerConstructed
    /\ feed = NewFeed

InitSizer ==
    /\ Constructed
    /\ calc \in {Some(c) : c \in [op : {"calculate_position_size"}, bankroll : Bankrolls,
                                  forecast_prob : Percents, market_price : Percents,
                                  side : Sides, current_exposure : Exposures,
                                  result : {None}]}

\* One call of PositionSizer.calculate_position_size
SizePosition ==
    /\ calc[1].result = None
    /\ calc' = Some([calc[1] EXCEPT !.result =
                        Some(CalculatePositionSize(calc[1].bankroll, calc[1].forecast_prob,
                                                   calc[1].market_price, calc[1].side,
                                                   calc[1].current_exposure))])
    /\ UNCHANGED calcRest

NextSizer == SizePosition

SpecSizer == InitSizer /\ [][NextSizer]_vars

\* C18: for all inputs (bankroll, forecast probability, price, side,
\* current_exposure) calculate_position_size returns size 0 or a size within
\* [min_position, max_position].
C18_SizeZeroOrInRange ==
    calc[1].result # None =>
        \/ calc[1].result[1] = 0
        \/ min_position <= calc[1].result[1] /\ calc[1].result[1] <= max_position

----------------------------------------------------------------------------
(* DiversificationFilter.  A portfolio is the sequence of the positions      *)
(* passed to PortfolioState.add_position; resolution dates are day numbers.  *)

FracAdd(a, b) == Frac(a.n * b.d + b.n * a.d, a.d * b.d)
FracSub(a, b) == Frac(a.n * b.d - b.n * a.d, a.d * b.d)
Whole(x) == Frac(x, 1)

\* DIVERSIFICATION_CONFIG
max_total_exposure_pct == 75
max_cluster_exposure_pct == 30
max_same_day_resolution_pct == 40
min_positions_for_50_pct == 2
min_positions_for_75_pct == 3

\* A position or a trade without cluster (cluster is None)
NoCluster == "none"

RECURSIVE SumSize(_, _)
SumSize(ps, S) ==
    IF S = {} THEN 0
    ELSE LET i == CHOOSE j \in S : TRUE IN ps[i].size + SumSize(ps, S \ {i})

\* PortfolioState.add_position: total_exposure, cluster_exposure, resolution_date_exposure
TotalExposure(ps) == SumSize(ps, DOMAIN ps)
ClusterExposure(ps, c) == SumSize(ps, {i \in DOMAIN ps : ps[i].cluster = c})
ResolutionDateExposure(ps, d) == SumSize(ps, {i \in DOMAIN ps : ps[i].resolution_date = d})

\* PortfolioState.get_unique_clusters
GetUniqueClusters(ps) == {ps[i].cluster : i \in DOMAIN ps} \ {NoCluster}

DiversificationResult(allowed, max_allowed_size, constraints_applied) ==
    [allowed |-> allowed, max_allowed_size |-> max_allowed_size,
     constraints_applied |-> constraints_applied]

Rejected(constraints_applied) == DiversificationResult(FALSE, Whole(0), constraints_applied)

\* _check_cluster_diversity: None, or the result it returns
CheckClusterDiversity(trade, ps, max_total, current_max_allowed) ==
    LET n_clusters == Cardinality(GetUniqueClusters(ps))
        adds_new_cluster == trade.cluster # NoCluster /\ trade.cluster \notin GetUniqueClusters(ps)
        new_exposure == FracAdd(Whole(TotalExposure(ps)), current_max_allowed)
        \* new_exposure / max_total > 0.50, > 0.75 (0 when max_total is 0)
        over_50 == max_total.n > 0 /\ FracLess(Frac(max_total.n * 50, max_total.d * 100), new_exposure)
        over_75 == max_total.n > 0 /\ FracLess(Frac(max_total.n * 75, max_total.d * 100), new_exposure)
        cap_50 == FracSub(Frac(max_total.n * 50, max_total.d * 100), Whole(TotalExposure(ps)))
        cap_75 == FracSub(Frac(max_total.n * 75, max_total.d * 100), Whole(TotalExposure(ps)))
    IN  IF over_50 /\ n_clusters < min_positions_for_50_pct /\ ~adds_new_cluster
        THEN IF cap_50.n <= 0 THEN Some(Rejected(<<"cluster_diversity_50">>))
             ELSE Some(DiversificationResult(TRUE, cap_50, <<"cluster_diversity_50">>))
        ELSE IF over_75 /\ n_clusters < min_positions_for_75_pct
        THEN IF cap_75.n <= 0 THEN Some(Rejected(<<"cluster_diversity_75">>))
             ELSE Some(DiversificationResult(TRUE, cap_75, <<"cluster_diversity_75">>))
        ELSE None

\* check_diversification_limits from check 4 on
DiversityCheck(trade, ps, max_total, max_allowed, constraints_applied) ==
    LET result == CheckClusterDiversity(trade, ps, max_total, max_allowed)
        lower == result # None /\ FracLess(result[1].max_allowed_size, max_allowed)
        max_allowed_4 == IF lower THEN result[1].max_allowed_size ELSE max_allowed
        constraints_4 == IF lower THEN constraints_applied \o result[1].constraints_applied
                         ELSE constraints_applied
    IN  IF result # None /\ ~result[1].allowed THEN result[1]
        ELSE IF FracLess(max_allowed_4, Whole(100)) THEN Rejected(constraints_4)
        ELSE DiversificationResult(TRUE, max_allowed_4, constraints_4)

\* check_diversification_limits from check 3 on
SameDayCheck(trade, ps, max_total, max_allowed, constraints_applied) ==
    LET same_day_limit == Frac(TotalExposure(ps) * max_same_day_resolution_pct, 100)
        same_day_remaining ==
            FracSub(same_day_limit, Whole(ResolutionDateExposure(ps, trade.resolution_date)))
    IN  IF TotalExposure(ps) > 0
        THEN IF same_day_remaining.n <= 0 THEN Rejected(<<"same_day_limit">>)
             ELSE IF FracLess(same_day_remaining, max_allowed)
             THEN DiversityCheck(trade, ps, max_total, same_day_remaining,
                                 Append(constraints_applied, "same_day_limit"))
             ELSE DiversityCheck(trade, ps, max_total, max_allowed, constraints_applied)
        ELSE DiversityCheck(trade, ps, max_total, max_allowed, constraints_applied)

\* check_diversification_limits from check 2 on
ClusterCheck(trade, ps, max_total, max_allowed, constraints_applied) ==
    LET cluster_limit == Frac(TotalExposure(ps) * max_cluster_exposure_pct, 100)
        cluster_remaining == FracSub(cluster_limit, Whole(ClusterExposure(ps, trade.cluster)))
    IN  IF trade.cluster # NoCluster /\ TotalExposure(ps) > 0
        THEN IF cluster_remaining.n <= 0 THEN Rejected(<<"cluster_limit">>)
             ELSE IF FracLess(cluster_remaining, max_allowed)
             THEN SameDayCheck(trade, ps, max_total, cluster_remaining,
                               Append(constraints_applied, "cluster_limit"))
             ELSE SameDayCheck(trade, ps, max_total, max_allowed, constraints_applied)
        ELSE SameDayCheck(trade, ps, max_total, max_allowed, constraints_applied)

\* DiversificationFilter.check_diversification_limits
CheckDiversificationLimits(trade, ps, bankroll) ==
    LET max_total == Frac(bankroll * max_total_exposure_pct, 100)
        remaining_capacity == FracSub(max_total, Whole(TotalExposure(ps)))
    IN  IF FracLeq(max_total, Whole(TotalExposure(ps))) THEN Rejected(<<"total_exposure">>)
        ELSE IF FracLess(remaining_capacity, Whole(trade.proposed_size))
        THEN ClusterCheck(trade, ps, max_total, remaining_capacity, <<"total_exposure">>)
        ELSE ClusterCheck(trade, ps, max_total, Whole(trade.proposed_size), <<>>)

\* The inputs of the filter
Clusters == {"A", "B", NoCluster}
ResolutionDates == {1, 2}
PositionSizes == {5000, 30000}
ProposedSizes == {50, 10000, 50000}

PortfolioPositions == [cluster : Clusters, size : PositionSizes, resolution_date : ResolutionDates]
Portfolios == UNION {[1..n -> PortfolioPositions] : n \in 0..MaxPortfolio}
TradeCandidates ==
    [cluster : Clusters, proposed_size : ProposedSizes, resolution_date : ResolutionDates]

InitDiversification ==
    /\ Constructed
    /\ calc \in {Some(c) : c \in [op : {"check_diversification_limits"}, trade : TradeCandidates,
                                  portfolio : Portfolios, bankroll : Bankrolls,
                                  result : {None}]}

\* One call of DiversificationFilter.check_diversification_limits
CheckLimits ==
    /\ calc[1].result = None
    /\ calc' = Some([calc[1] EXCEPT !.result =
                        Some(CheckDiversificationLimits(calc[1].trade, calc[1].portfolio,
                                                        calc[1].bankroll))])
    /\ UNCHANGED calcRest

NextDiversification == CheckLimits

SpecDiversification == InitDiversification /\ [][NextDiversification]_vars

\* Bankroll 1000, one 300 USD position in cluster A, a candidate of size 100 in
\* cluster A
S19Scenario ==
    /\ calc[1].bankroll = 100000
    /\ Len(calc[1].portfolio) = 1
    /\ calc[1].portfolio[1].cluster = "A"
    /\ calc[1].portfolio[1].size = 30000
    /\ calc[1].trade.cluster = "A"
    /\ calc[1].trade.proposed_size = 10000

\* C19: with bankroll 1000 and the default limits, a portfolio holding one
\* 300 USD position in cluster A and a candidate of size 100 in cluster A yield
\* an allowed result with max_allowed_size 75 and the applied constraint
\* cluster_diversity_50.
C19_CappedAt75 ==
    (S19Scenario /\ calc[1].result # None) =>
        calc[1].result[1] = DiversificationResult(TRUE, Whole(7500), <<"cluster_diversity_50">>)

----------------------------------------------------------------------------
(* EdgeCalculator.calculate_edge.  model_agreement is in percent. *)

\* max(0.01, min(0.99, x))
Clamp(x) == Max(1, Min(99, x))

\* Variant: the edge is taken as price / probability - 1
EdgeOn_Inverted(prob, price) == FracSub(Frac(price, prob), Whole(1))

\* (prob / price) - 1
EdgeOn(prob, price) == FracSub(Frac(prob, price), Whole(1))

\* _calculate_confidence
CalculateConfidence(edge, model_agreement) ==
    IF model_agreement >= 80 /\ FracLeq(Frac(15, 100), edge) THEN "HIGH"
    ELSE IF model_agreement >= 60 /\ FracLeq(Frac(8, 100), edge) THEN "MEDIUM"
    ELSE "LOW"

\* The EdgeCalculation built from the clamped values and the two edges
EdgeCalculation(forecast_prob, market_price, model_agreement, edge_yes, edge_no) ==
    LET side == IF FracLess(edge_no, edge_yes) /\ edge_yes.n > 0 THEN "YES"
                ELSE IF edge_no.n > 0 THEN "NO"
                ELSE "none"
        edge == IF side = "YES" THEN edge_yes
                ELSE IF side = "NO" THEN edge_no
                ELSE IF FracLess(edge_yes, edge_no) THEN edge_no ELSE edge_yes
        ev == IF side = "YES" THEN FracSub(Frac(forecast_prob, market_price), Whole(1))
              ELSE IF side = "NO"
              THEN FracSub(Frac(100 - forecast_prob, 100 - market_price), Whole(1))
              ELSE Whole(0)
    IN  [forecast_probability |-> forecast_prob, market_probability |-> market_price,
         edge |-> edge, expected_value |-> ev, model_agreement |-> model_agreement,
         recommended_side |-> side,
         confidence_level |-> CalculateConfidence(edge, model_agreement),
         edge_yes |-> edge_yes, edge_no |-> edge_no]

\* EdgeCalculator.calculate_edge
CalculateEdge(forecast_prob, market_price, model_agreement) ==
    EdgeCalculation(Clamp(forecast_prob), Clamp(market_price), model_agreement,
                    EdgeOn(Clamp(forecast_prob), Clamp(market_price)),
                    EdgeOn(100 - Clamp(forecast_prob), 100 - Clamp(market_price)))

\* The inputs of the calculator: every whole percent, and EdgeMargin values
\* beyond each end of [0, 1]
EdgeInputs == (0 - EdgeMargin)..(100 + EdgeMargin)
ModelAgreements == {50, 60, 80}

InitEdge ==
    /\ Constructed
    /\ calc \in {Some(c) : c \in [op : {"calculate_edge"}, forecast_prob : EdgeInputs,
                                  market_price : EdgeInputs,
                                  model_agreement : ModelAgreements, result : {None}]}

\* One call of EdgeCalculator.calculate_edge
EdgeCall ==
    /\ calc[1].result = None
    /\ calc' = Some([calc[1] EXCEPT !.result =
                        Some(CalculateEdge(calc[1].forecast_prob, calc[1].market_price,
                                           calc[1].model_agreement))])
    /\ UNCHANGED calcRest

NextEdge == EdgeCall

SpecEdge == InitEdge /\ [][NextEdge]_vars

\* C20: for every forecast probability and market price, after both are
\* clamped to [0.01, 0.99], calculate_edge gives edge_yes > 0 exactly when the
\* clamped forecast probability exceeds the clamped market price, and it
\* recommends YES exactly in that case.
C20_EdgeYesIffAbove ==
    calc[1].result # None =>
        /\ calc[1].result[1].edge_yes.n > 0
             <=> Clamp(calc[1].forecast_prob) > Clamp(calc[1].market_price)
        /\ calc[1].result[1].recommended_side = "YES"
             <=> Clamp(calc[1].forecast_prob) > Clamp(calc[1].market_price)

\* A forecast above the clamp, a price inside it: YES with a positive edge
C20_Witness ==
    /\ calc[1].result # None
    /\ calc[1].forecast_prob > 99
    /\ calc[1].market_price \in 1..98
    /\ calc[1].result[1].forecast_probability = 99
    /\ calc[1].result[1].recommended_side = "YES"
    /\ calc[1].result[1].edge_yes.n > 0

----------------------------------------------------------------------------
(* Forecast probabilities: weather_client.calculate_exceedance_probability   *)
(* and aggregate_model_probabilities, and the EdgeCalculator methods that    *)
(* use them.  Probabilities are exact quotients.  A model agreement          *)
(* max(0, 1 - 2 * stdev) is kept as the square d2 = (2 * stdev)^2, so that    *)
(* agreement >= t is d2 <= (1 - t)^2.                                         *)

FracMul(a, b) == Frac(a.n * b.n, a.d * b.d)
FracDiv(a, b) == IF b.n < 0 THEN Frac((0 - a.n) * b.d, a.d * (0 - b.n))
                 ELSE Frac(a.n * b.d, a.d * b.n)

\* The models of an ensemble, in the order of the dictionary
ModelNames == <<"gfs_seamless", "ecmwf_temperature">>

\* v <comparison> threshold
Satisfies(v, threshold, comparison) ==
    CASE comparison = ">=" -> FracLeq(threshold, Whole(v))
      [] comparison = ">"  -> FracLess(threshold, Whole(v))
      [] comparison = "<=" -> FracLeq(Whole(v), threshold)
      [] comparison = "<"  -> FracLess(Whole(v), threshold)

\* Variant: the share of members without Laplace smoothing
CalculateExceedanceProbability_Unsmoothed(ensemble_values, threshold, comparison) ==
    IF Len(ensemble_values) = 0 THEN Frac(1, 2)
    ELSE Frac(Cardinality({i \in 1..Len(ensemble_values) :
                              Satisfies(ensemble_values[i], threshold, comparison)}),
              Len(ensemble_values))

\* calculate_exceedance_probability(..., apply_smoothing=True)
CalculateExceedanceProbability(ensemble_values, threshold, comparison) ==
    IF Len(ensemble_values) = 0 THEN Frac(1, 2)
    ELSE Frac(Cardinality({i \in 1..Len(ensemble_values) :
                              Satisfies(ensemble_values[i], threshold, comparison)}) + 1,
              Len(ensemble_values) + 2)

\* The threshold compared with the members of model m: converted to Celsius
\* for a Fahrenheit threshold and a model name containing "temperature"
AdjustedThreshold(threshold, unit, m) ==
    IF unit = "fahrenheit" /\ m = "ecmwf_temperature"
    THEN Frac((threshold - 32) * 5, 9)
    ELSE Whole(threshold)

\* The models that supply at least one member
WithMembers(ensemble_data) ==
    SelectSeq(ModelNames, LAMBDA m : Len(ensemble_data[m]) > 0)

RECURSIVE FracSum(_, _)
FracSum(f, names) ==
    IF names = <<>> THEN Whole(0)
    ELSE FracAdd(f[Head(names)], FracSum(f, Tail(names)))

\* aggregate_model_probabilities over the models `names` (not empty):
\* weighted mean, and (2 * statistics.stdev)^2 of the probabilities
AggregateModelProbabilities(probs, names, weights) ==
    LET w == [m \in DOMAIN probs |-> IF weights = None THEN Whole(1) ELSE Whole(weights[1][m])]
        total_weight == FracSum(w, names)
        weighted_sum == FracSum([m \in DOMAIN probs |-> FracMul(probs[m], w[m])], names)
        mean == FracDiv(FracSum(probs, names), Whole(Len(names)))
        squares == FracSum([m \in DOMAIN probs |->
                               FracMul(FracSub(probs[m], mean), FracSub(probs[m], mean))],
                           names)
    IN  [mean_prob |-> IF total_weight.n > 0 THEN FracDiv(weighted_sum, total_weight)
                       ELSE Frac(1, 2),
         d2 |-> IF Len(names) > 1
                THEN FracMul(Whole(4), FracDiv(squares, Whole(Len(names) - 1)))
                ELSE Whole(0)]

\* Variant: without data the agreement is that of a single model (1.0)
CalculateForecastProbability_FullAgreement(ensemble_data, threshold, comparison, unit, weights) ==
    LET names == WithMembers(ensemble_data)
        probs == [m \in {ModelNames[i] : i \in 1..Len(ModelNames)} |->
                     CalculateExceedanceProbability(ensemble_data[m],
                         AdjustedThreshold(threshold, unit, m), comparison)]
        agg == AggregateModelProbabilities(probs, names, weights)
    IN  IF names = <<>>
        THEN [probability |-> Frac(1, 2), d2 |-> Whole(0), model_probabilities |-> <<>>]
        ELSE [probability |-> agg.mean_prob, d2 |-> agg.d2,
              model_probabilities |-> [i \in 1..Len(names) |-> probs[names[i]]]]

\* EdgeCalculator.calculate_forecast_probability
CalculateForecastProbability(ensemble_data, threshold, comparison, unit, weights) ==
    LET names == WithMembers(ensemble_data)
        probs == [m \in {ModelNames[i] : i \in 1..Len(ModelNames)} |->
                     CalculateExceedanceProbability(ensemble_data[m],
                         AdjustedThreshold(threshold, unit, m), comparison)]
        agg == AggregateModelProbabilities(probs, names, weights)
    IN  IF names = <<>>
        THEN [probability |-> Frac(1, 2), d2 |-> Whole(1), model_probabilities |-> <<>>]
        ELSE [probability |-> agg.mean_prob, d2 |-> agg.d2,
              model_probabilities |-> [i \in 1..Len(names) |-> probs[names[i]]]]

\* max(0.01, min(0.99, x)) of a quotient
ClampProbability(x) ==
    IF FracLess(x, Frac(1, 100)) THEN Frac(1, 100) ELSE FracMin(Frac(99, 100), x)

\* model_agreement >= pct / 100
AgreementAtLeast(d2, pct) == FracLeq(d2, Frac((100 - pct) * (100 - pct), 10000))

\* EdgeCalculator.calculate_edge on exact quotients, with is_tradeable()
CalculateEdgeExact(forecast_prob, market_price, d2) ==
    LET mp == ClampProbability(market_price)
        fp == ClampProbability(forecast_prob)
        edge_yes == FracSub(FracDiv(fp, mp), Whole(1))
        edge_no == FracSub(FracDiv(FracSub(Whole(1), fp), FracSub(Whole(1), mp)), Whole(1))
        side == IF FracLess(edge_no, edge_yes) /\ edge_yes.n > 0 THEN "YES"
                ELSE IF edge_no.n > 0 THEN "NO"
                ELSE "none"
        edge == IF side = "YES" THEN edge_yes
                ELSE IF side = "NO" THEN edge_no
                ELSE IF FracLess(edge_yes, edge_no) THEN edge_no ELSE edge_yes
    IN  [forecast_probability |-> fp, market_probability |-> mp, edge |-> edge,
         recommended_side |-> side, d2 |-> d2, edge_yes |-> edge_yes, edge_no |-> edge_no,
         is_tradeable |-> /\ side # "none"
                          /\ FracLeq(Frac(5, 100), edge)
                          /\ FracLeq(edge, Frac(50, 100))
                          /\ AgreementAtLeast(d2, 60)]

\* EdgeCalculator.calculate_from_forecast_data
CalculateFromForecastData(ensemble_data, threshold, comparison, market_price, unit) ==
    LET f == CalculateForecastProbability(ensemble_data, threshold, comparison, unit, None)
    IN  [forecast |-> f,
         edge_calc |-> CalculateEdgeExact(f.probability, Frac(market_price, 100), f.d2)]

\* The inputs: ensembles of up to MaxMembers members per model (daily maxima
\* in Celsius), Fahrenheit thresholds with a whole Celsius value
EnsembleValues == {0, 5}
RECURSIVE SeqsUpTo(_, _)
SeqsUpTo(S, n) ==
    IF n = 0 THEN {<<>>}
    ELSE SeqsUpTo(S, n - 1) \cup {Append(q, x) : q \in {r \in SeqsUpTo(S, n - 1) : Len(r) = n - 1}, x \in S}
Ensembles == [{ModelNames[i] : i \in 1..Len(ModelNames)} -> SeqsUpTo(EnsembleValues, MaxMembers)]
Thresholds == {32, 41}
Comparisons == {">=", ">", "<=", "<"}
Units == {"fahrenheit", "celsius"}
ModelWeights == {None} \cup {Some(w) : w \in [{ModelNames[i] : i \in 1..Len(ModelNames)} -> {0, 1, 3}]}
MarketPrices == {5 * i : i \in 0..20}

InitForecast ==
    /\ Constructed
    /\ calc \in {Some(c) : c \in
                    [op : {"calculate_forecast_probability"}, ensemble_data : Ensembles,
                     threshold : Thresholds, comparison : Comparisons, unit : Units,
                     model_weights : ModelWeights, market_price : {50}, result : {None}]
                    \cup
                    [op : {"calculate_from_forecast_data"}, ensemble_data : Ensembles,
                     threshold : Thresholds, comparison : Comparisons, unit : Units,
                     model_weights : {None}, market_price : MarketPrices, result : {None}]}

\* One call of EdgeCalculator.calculate_forecast_probability
ForecastCall ==
    /\ calc[1].op = "calculate_forecast_probability"
    /\ calc[1].result = None
    /\ calc' = Some([calc[1] EXCEPT !.result =
                        Some([forecast |-> CalculateForecastProbability(calc[1].ensemble_data,
                                               calc[1].threshold, calc[1].comparison,
                                               calc[1].unit, calc[1].model_weights)])])
    /\ UNCHANGED calcRest

\* One call of EdgeCalculator.calculate_from_forecast_data
EdgeFromForecastCall ==
    /\ calc[1].op = "calculate_from_forecast_data"
    /\ calc[1].result = None
    /\ calc' = Some([calc[1] EXCEPT !.result =
                        Some(CalculateFromForecastData(calc[1].ensemble_data,
                                 calc[1].threshold, calc[1].comparison,
                                 calc[1].market_price, calc[1].unit))])
    /\ UNCHANGED calcRest

NextForecast == ForecastCall \/ EdgeFromForecastCall

SpecForecast == InitForecast /\ [][NextForecast]_vars

InUnitInterval(p) == p.n > 0 /\ p.n < p.d

\* The per-model values are (k + 1) / (n + 2) for the n >= 1 members of the
\* model, k of them satisfying the comparison
PerModelSmoothed ==
    LET names == WithMembers(calc[1].ensemble_data)
        f == calc[1].result[1].forecast
    IN  /\ Len(f.model_probabilities) = Len(names)
        /\ \A i \in 1..Len(names) :
              LET vals == calc[1].ensemble_data[names[i]]
                  k == Cardinality({j \in 1..Len(vals) :
                          Satisfies(vals[j],
                                    AdjustedThreshold(calc[1].threshold, calc[1].unit, names[i]),
                                    calc[1].comparison)})
              IN  /\ f.model_probabilities[i].n * (Len(vals) + 2)
                        = (k + 1) * f.model_probabilities[i].d
                  /\ InUnitInterval(f.model_probabilities[i])

\* C21: every probability returned by calculate_forecast_probability is
\* strictly between 0 and 1, each per-model value is (k + 1) / (n + 2), and
\* the forecast_probability of the EdgeCalculation built from it lies in
\* [0.01, 0.99].
C21_ForecastProbabilityInside ==
    calc[1].result # None =>
        /\ PerModelSmoothed
        /\ InUnitInterval(calc[1].result[1].forecast.probability)
        /\ calc[1].op = "calculate_from_forecast_data" =>
              /\ FracLeq(Frac(1, 100), calc[1].result[1].edge_calc.forecast_probability)
              /\ FracLeq(calc[1].result[1].edge_calc.forecast_probability, Frac(99, 100))

\* Two members, none satisfying the comparison: 1/4; another model whose
\* members all satisfy it
C21_Witness ==
    /\ calc[1].result # None
    /\ calc[1].op = "calculate_from_forecast_data"
    /\ Len(calc[1].ensemble_data["gfs_seamless"]) = 2
    /\ Len(calc[1].ensemble_data["ecmwf_temperature"]) = 1
    /\ calc[1].result[1].forecast.model_probabilities = <<Frac(1, 4), Frac(2, 3)>>
    /\ calc[1].result[1].edge_calc.forecast_probability = Frac(11, 24)

\* C22: when no model supplies an ensemble member,
\* calculate_forecast_probability returns probability 0.5 (agreement 0.0, no
\* per-model value), and the EdgeCalculation that calculate_from_forecast_data
\* builds from it is not tradeable, whatever the market price.
C22_NoDataNotTradeable ==
    (calc[1].result # None /\ WithMembers(calc[1].ensemble_data) = <<>>) =>
        /\ calc[1].result[1].forecast.probability = Frac(1, 2)
        /\ calc[1].result[1].forecast.model_probabilities = <<>>
        /\ calc[1].op = "calculate_from_forecast_data" =>
              ~calc[1].result[1].edge_calc.is_tradeable

\* No member at all and a price of 0.45: YES with an edge of 1/9, inside
\* [min_edge, max_edge], and still not tradeable
C22_Witness ==
    /\ calc[1].result # None
    /\ calc[1].op = "calculate_from_forecast_data"
    /\ WithMembers(calc[1].ensemble_data) = <<>>
    /\ calc[1].market_price = 45
    /\ calc[1].result[1].edge_calc.recommended_side = "YES"
    /\ calc[1].result[1].edge_calc.edge = Frac(1, 9)
    /\ ~calc[1].result[1].edge_calc.is_tradeable

----------------------------------------------------------------------------
(* PriceFeed (src/execution/price_feed.py): connect, subscribe, unsubscribe, *)
(* the loss of the connection seen by the receive task, and its              *)
(* _attempt_reconnect loop.  subscribe and unsubscribe are calls of other     *)
(* coroutines; they run while the feed's own coroutine is suspended, also     *)
(* between two sends of _resubscribe.  The loss of a connection is noticed    *)
(* by a receive task that awaits recv while no connect() is in progress.      *)

reconnect_delay == 5
max_reconnect_attempts == 10
MaxBackoff == 60
Tokens == {"A", "B"}

feedRest == <<now, riskVars, schedVars, orderVars, trackerVars, test_mode, calc, engine_status,
              engine_is_halted, engine_rm, loop_rm, loop_state, loop_paused, engine_positions,
              eng_hist>>

RECURSIVE Pow2(_)
Pow2(n) == IF n = 0 THEN 1 ELSE 2 * Pow2(n - 1)

\* delay = min(reconnect_delay * 2 ** (count - 1), 60)
BackoffDelay(count) == Min(reconnect_delay * Pow2(count - 1), MaxBackoff)

\* The top of the while loop of _attempt_reconnect: the next attempt begins
\* with its sleep, or the loop ends with status ERROR
ReconnectLoop(f) ==
    IF f.reconnect_count < max_reconnect_attempts
    THEN [f EXCEPT !.reconnect_count = @ + 1, !.status = "reconnecting",
                   !.delay = BackoffDelay(f.reconnect_count + 1), !.pc = "sleep"]
    ELSE [f EXCEPT !.status = "error", !.pc = "gave_up"]

\* connect() returns False (websockets.connect raised, or _resubscribe
\* raised): status ERROR; a first connect leaves the feed as it is, the
\* reconnect loop goes on
ConnectFailed(f) ==
    LET g == [f EXCEPT !.status = "error", !.hist.last = "failed"]
    IN  IF f.by = "reconnect" THEN ReconnectLoop(g)
        ELSE [g EXCEPT !.pc = IF f.pc = "resub" THEN "stale" ELSE "new"]

\* connect() after websockets.connect has returned: CONNECTED, the counter
\* reset, a new receive task, and, when there are tokens, _resubscribe up to
\* its first await: the send for the token t that the iterator yields first
ConnectSucceeded(f, t) ==
    LET g == [f EXCEPT !.status = "connected", !.reconnect_count = 0, !.sent = {}]
    IN  IF f.subscribed # {}
        THEN [g EXCEPT !.pc = "resub", !.used = Cardinality(f.subscribed),
                       !.yielded = {t}, !.sent = {t}, !.added = {}]
        ELSE [g EXCEPT !.pc = "recv", !.hist.last = "connected"]

\* PriceFeed.connect() called by TradingEventLoop.start (or again after a
\* failure)
FeedConnect ==
    /\ feed.pc = "new"
    /\ feed.hist.calls < MaxFeedCalls
    /\ \E ok \in BOOLEAN, t \in Tokens :
          LET f == [feed EXCEPT !.status = "connecting", !.by = "start", !.hist.calls = @ + 1]
          IN  /\ feed.subscribed # {} => t \in feed.subscribed
              /\ feed' = IF ok THEN ConnectSucceeded(f, t) ELSE ConnectFailed(f)
    /\ UNCHANGED feedRest

\* PriceFeed.subscribe(token_id) by another coroutine
FeedSubscribe ==
    /\ feed.hist.calls < MaxFeedCalls
    /\ \E t \in Tokens :
          feed' = [feed EXCEPT !.subscribed = @ \cup {t},
                               !.sent = IF feed.status = "connected" THEN @ \cup {t} ELSE @,
                               !.added = IF feed.pc = "resub" /\ t \notin feed.subscribed
                                         THEN @ \cup {t} ELSE @,
                               !.hist.calls = @ + 1,
                               !.hist.raced = @ \/ (feed.pc = "resub" /\ t \notin feed.subscribed)]
    /\ UNCHANGED feedRest

\* PriceFeed.unsubscribe(token_id) by another coroutine
FeedUnsubscribe ==
    /\ feed.hist.calls < MaxFeedCalls
    /\ \E t \in Tokens :
          feed' = [feed EXCEPT !.subscribed = @ \ {t},
                               !.sent = IF feed.status = "connected" THEN @ \ {t} ELSE @,
                               !.added = @ \ {t},
                               !.hist.calls = @ + 1,
                               !.hist.raced = @ \/ (feed.pc = "resub" /\ t \in feed.subscribed)]
    /\ UNCHANGED feedRest

\* The receive task gets ConnectionClosed: _handle_disconnect, and from status
\* CONNECTED _attempt_reconnect
FeedLost ==
    /\ feed.pc = "recv"
    /\ feed.status = "connected"
    /\ feed.hist.losses < MaxLosses
    /\ feed' = ReconnectLoop([feed EXCEPT !.status = "disconnected", !.by = "reconnect",
                                          !.hist.losses = @ + 1, !.hist.attempts = 0,
                                          !.hist.raced = FALSE, !.hist.last = "lost"])
    /\ UNCHANGED feedRest

\* The backoff sleep of _attempt_reconnect ends: one call of connect()
FeedAttempt ==
    /\ feed.pc = "sleep"
    /\ \E ok \in BOOLEAN, t \in Tokens :
          LET f == [feed EXCEPT !.status = "connecting", !.hist.attempts = @ + 1]
          IN  /\ feed.subscribed # {} => t \in feed.subscribed
              /\ feed' = IF ok THEN ConnectSucceeded(f, t) ELSE ConnectFailed(f)
    /\ UNCHANGED feedRest

\* _resubscribe after a send has returned, the next step of
\* `for token_id in self._subscribed_tokens`: the
\* iterator raises RuntimeError when the set has changed its size; otherwise
\* it yields a token not yielded before (one added during the iteration may
\* or may not be reached), for which subscribe() sends a message, or it ends
\* and connect() returns True
FeedResubscribeStep ==
    /\ feed.pc = "resub"
    /\ LET rest == feed.subscribed \ feed.yielded
       IN  IF Cardinality(feed.subscribed) # feed.used
           THEN feed' = ConnectFailed(feed)
           ELSE \/ \E t \in rest :
                      feed' = [feed EXCEPT !.yielded = @ \cup {t}, !.sent = @ \cup {t}]
                \/ /\ rest \subseteq feed.added
                   /\ feed' = [feed EXCEPT !.pc = "recv", !.hist.last = "connected"]
    /\ UNCHANGED feedRest

InitFeed == Constructed /\ calc = None

NextFeed ==
    \/ FeedConnect
    \/ FeedSubscribe
    \/ FeedUnsubscribe
    \/ FeedLost
    \/ FeedAttempt
    \/ FeedResubscribeStep

SpecFeed == InitFeed /\ [][NextFeed]_vars

\* C23: after a lost connection the feed makes at most max_reconnect_attempts
\* consecutive reconnection attempts, it waits
\* min(reconnect_delay * 2^(n-1), 60) seconds before attempt n, a successful
\* attempt leaves a subscription sent for every subscribed token, and when
\* all attempts have failed the status is ERROR and the loop has ended.
C23_ReconnectBackoff ==
    /\ feed.hist.attempts <= max_reconnect_attempts
    /\ feed.pc = "sleep" => feed.delay = BackoffDelay(feed.hist.attempts + 1)
    /\ (feed.pc = "recv" /\ feed.status = "connected") => feed.subscribed \subseteq feed.sent
    /\ feed.pc = "gave_up" =>
          feed.status = "error" /\ feed.hist.attempts = max_reconnect_attempts

\* The same without a subscribe or unsubscribe call that changes the set
\* while _resubscribe iterates over it
C23_WithoutRace ==
    ~feed.hist.raced => C23_ReconnectBackoff

----------------------------------------------------------------------------
(* The order of the tasks within a tick *)

\* The scheduler running undisturbed (no stop, pause or resume), entered with
\* tasks that have failed before: every task is due and has raised prior
\* times in a row, prior up to MaxPriorErrors
InitSchedRetry ==
    /\ RiskConstructed
    /\ test_mode = FALSE
    /\ engine_status = "active"
    /\ engine_is_halted = FALSE
    /\ engine_rm = None
    /\ loop_rm = None
    /\ loop_state = "running"
    /\ loop_paused = FALSE
    /\ engine_positions = 0
    /\ eng_hist = [events |-> 0, created |-> FALSE, loop_halted |-> FALSE, resolves_in |-> 0]
    /\ clock = 0
    /\ \E prior \in 0..MaxPriorErrors :
          tasks = [n \in TaskNames |-> [NewTask(0) EXCEPT !.error_count = prior]]
    /\ sched_pc = "test"
    /\ due_tasks = <<>>
    /\ current_task = None
    /\ cycle_start = 0
    /\ wake_at = 0
    /\ sched_hist = [cycles |-> 0, errors |-> 0, slow |-> 0, controls |-> 0,
                     tick_due |-> {}, started |-> {}, finished |-> {}, stamped |-> {}]
    /\ OrdersConstructed
    /\ TrackerConstructed
    /\ calc = None
    /\ feed = NewFeed

NextSchedRetry ==
    \/ TickStart
    \/ TaskBegin
    \/ TaskReturn
    \/ TaskRaise
    \/ TickEnd
    \/ Wake
    \/ ClockTick

SpecSchedRetry == InitSchedRetry /\ [][NextSchedRetry]_vars

\* A step in which the awaited task returns
TaskReturned ==
    sched_pc = "task" /\ sched_pc' = "run" /\ sched_hist'.errors = sched_hist.errors

\* C25: when a task fails, its error_count goes up by one and its next_run is
\* now + retry_delay_seconds * min(error_count, max_retries), at most
\* retry_delay_seconds * max_retries after now; when it succeeds, its
\* run_count goes up by one and its next_run is the completion time plus
\* interval_seconds, however long it had been due; and no task is started
\* twice in one tick.
C25_Reschedule ==
    [][/\ TaskRaised =>
            LET n == current_task[1]
            IN  /\ tasks'[n].error_count = tasks[n].error_count + 1
                /\ tasks'[n].run_count = tasks[n].run_count
                /\ tasks'[n].next_run
                      = clock + RetryDelaySeconds * Min(tasks'[n].error_count, TaskMaxRetries)
                /\ tasks'[n].next_run - clock <= RetryDelaySeconds * TaskMaxRetries
       /\ TaskReturned =>
            LET n == current_task[1]
            IN  /\ tasks'[n].run_count = tasks[n].run_count + 1
                /\ tasks'[n].error_count = tasks[n].error_count
                /\ tasks'[n].next_run = clock + IntervalSeconds[n]
       /\ TaskStarts => Head(due_tasks) \notin sched_hist.started]_vars

\* A task that had failed max_retries times fails once more and is due again
\* retry_delay_seconds * max_retries later; a task that returned late has its
\* next run counted from its completion
C25_Witness ==
    /\ sched_pc = "run"
    /\ \E n \in sched_hist.finished \ sched_hist.stamped :
          /\ tasks[n].error_count = TaskMaxRetries + 1
          /\ tasks[n].next_run = clock + RetryDelaySeconds * TaskMaxRetries
    /\ \E n \in sched_hist.stamped :
          /\ clock > cycle_start
          /\ tasks[n].last_run = Some(clock)
          /\ tasks[n].next_run = clock + IntervalSeconds[n]

\* disable_task(name) by another coroutine
SchedDisableTask ==
    /\ LoopSuspended
    /\ sched_hist.controls < MaxSchedControls
    /\ \E n \in TaskNames :
          /\ tasks[n].enabled
          /\ tasks' = [tasks EXCEPT ![n].enabled = FALSE]
    /\ sched_hist' = [sched_hist EXCEPT !.controls = @ + 1]
    /\ UNCHANGED <<now, riskVars, engineVars, orderVars, trackerVars, clock, sched_pc,
                   due_tasks, current_task, cycle_start, wake_at>>

\* enable_task(name) by another coroutine
SchedEnableTask ==
    /\ LoopSuspended
    /\ sched_hist.controls < MaxSchedControls
    /\ \E n \in TaskNames :
          /\ ~tasks[n].enabled
          /\ tasks' = [tasks EXCEPT ![n].enabled = TRUE]
    /\ sched_hist' = [sched_hist EXCEPT !.controls = @ + 1]
    /\ UNCHANGED <<now, riskVars, engineVars, orderVars, trackerVars, clock, sched_pc,
                   due_tasks, current_task, cycle_start, wake_at>>

\* The scheduler with its tasks disabled and enabled from outside
NextSchedTasks == NextSched \/ SchedDisableTask \/ SchedEnableTask

SpecSchedTasks == InitSched /\ [][NextSchedTasks]_vars

\* Task n may run before task m under the order (priority, next_run)
RunsNoLater(n, m) ==
    \/ Priority[n] < Priority[m]
    \/ Priority[n] = Priority[m] /\ tasks[n].next_run <= tasks[m].next_run

\* C24: within a tick the due tasks are executed in the order of
\* (priority ascending, next_run ascending): whenever a task begins, every
\* due task still waiting in that tick has a higher priority value, or the
\* same priority and a next_run that is not earlier.
C24_PriorityThenNextRun ==
    [][TaskStarts =>
          \A i \in 2..Len(due_tasks) : RunsNoLater(Head(due_tasks), due_tasks[i])]_vars

----------------------------------------------------------------------------
(* The status graph of a monitored order                                     *)

\* C26 as stated: every status change of a monitored order is one of
\* PENDING -> {OPEN, REJECTED}, OPEN -> {PARTIAL, FILLED, CANCELLED, EXPIRED},
\* PARTIAL -> {FILLED, CANCELLED, EXPIRED}, whatever the venue reports.
C26_StatusGraph ==
    [][\A o \in DOMAIN orders :
          LET old == orders[o].status
              new == orders'[o].status
          IN  new # old =>
                \/ old = "pending" /\ new \in {"open", "rejected"}
                \/ old = "open" /\ new \in {"partially_filled", "filled", "cancelled", "expired"}
                \/ old = "partially_filled" /\ new \in {"filled", "cancelled", "expired"}]_vars

----------------------------------------------------------------------------
(* Order timeouts under the scheduling of asyncio: the coroutine that runs   *)
(* goes on to its next suspension point, and the monitoring loop, once its   *)
(* sleep or its awaited callback is over, is run again after the callbacks   *)
(* that were ready before it.                                                *)

\* A step of the scheduler's order_monitor task while it runs
TaskPollerRuns ==
    \/ PollOrder /\ running = "task"
    \/ PollDone

\* A step of OrderMonitor._monitoring_loop
MonitoringLoopStep ==
    \/ PollStart /\ running' = "loop"
    \/ PollOrder /\ running = "loop"
    \/ PollResume /\ running' = "loop"
    \/ CheckTimeouts

SpecOrdersFair == SpecOrders /\ WF_vars(TaskPollerRuns) /\ SF_vars(MonitoringLoopStep)

\* The order is past expires_at, or past created_at + order_timeout, and not complete
TimedOutOpen(o) == o \in DOMAIN orders /\ o \in timed_out /\ ~IsComplete(orders[o])

----------------------------------------------------------------------------
(* The distance of a trade from the resolution of its market                 *)

\* C30 as stated: no order is emitted for a market that resolves less than
\* min_hours_before_resolution (12 hours) after the emission.
C30_NoOrderNearResolution ==
    eng_hist.created => eng_hist.resolves_in >= MinHoursBeforeResolution * 60

----------------------------------------------------------------------------
(* The cooldown after a loss, on a clock of minutes around the end of the    *)
(* cooldown of a loss made at the start of the horizon or one minute later   *)

CooldownOffsets == {0, 1, 29, 30, 31, 60, MinPerDay}

CooldownTimes == {FirstDay * MinPerDay + m : m \in CooldownOffsets}

\* The clock moves on by minutes
CooldownAdvance ==
    /\ \E t \in CooldownTimes : t > now /\ now' = t
    /\ last_op' = Op("advance", risk.halt_condition, "none")
    /\ UNCHANGED <<risk, ledger, n_updates, manual_ops, engineVars, schedVars, orderVars, trackerVars>>

InitCooldown == Init

NextCooldown ==
    \/ CooldownAdvance
    \/ RiskUpdatePnl
    \/ RiskCanTrade
    \/ RiskValidateTrade
    \/ RiskTriggerManualHalt
    \/ RiskClearHaltCmd
    \/ RiskResetDailyPnl

SpecCooldown == InitCooldown /\ [][NextCooldown]_vars

\* The step is an update_pnl with a negative amount
LossStep == n_updates' = n_updates + 1 /\ ledger'[DayOf(now)] < ledger[DayOf(now)]

\* What can_trade(now) returns in the present state, against the time of the last loss
CooldownGate ==
    LET c == CanTrade(risk, now)
        last == risk.last_loss_time
    IN  /\ (last # None /\ last[1] <= now /\ now < last[1] + CooldownAfterLossMinutes) => ~c.ok
        /\ (~c.state.is_halted /\ (last = None \/ now >= last[1] + CooldownAfterLossMinutes))
             => c.ok

\* C31: update_pnl with a negative amount at time t makes t the time of the
\* last loss and nothing else moves it; can_trade(now) returns false for every
\* now with t <= now < t + cooldown_after_loss_minutes and, when no halt is in
\* effect, true for every now >= t + cooldown_after_loss_minutes.
C31_CooldownAfterLoss ==
    /\ []CooldownGate
    /\ [][IF LossStep THEN risk'.last_loss_time = Some(now)
                      ELSE risk'.last_loss_time = risk.last_loss_time]_vars

\* can_trade has just been called at the very minute the cooldown of a loss
\* ends, with no halt in effect
C31_Witness ==
    /\ last_op.op = "can_trade"
    /\ risk.last_loss_time # None
    /\ now = risk.last_loss_time[1] + CooldownAfterLossMinutes
    /\ ~risk.is_halted
    /\ risk.daily_pnl < 0
    /\ CanTrade(risk, now).ok

----------------------------------------------------------------------------
(* Positions recorded by TradingEngine.execute_trade                         *)

\* The venue's report for the order of the last trade: the simulated fill of
\* test mode; in live mode no order reaches a venue (without an executor none
\* is placed, with one the call of place_order fails)
LastTradeReport == IF test_mode THEN "filled" ELSE "none"

\* C32 as stated: execute_trade creates a position record only for an order
\* that the venue reports as filled.
C32_PositionOnlyForFilledOrder ==
    eng_hist.created => LastTradeReport = "filled"

----------------------------------------------------------------------------
(* Overlapping status updates of one order                                   *)

----------------------------------------------------------------------------
(* The four halt fields of RiskState                                         *)

\* C34: in every reachable RiskManager state is_halted is true exactly when
\* halt_condition is not NONE, and halt_reason and halt_time are set exactly
\* when is_halted is true.
C34_HaltFieldsAgree ==
    /\ risk.is_halted <=> risk.halt_condition # "none"
    /\ risk.is_halted <=> risk.halt_reason # None
    /\ risk.is_halted <=> risk.halt_time # None

\* A daily-loss halt has just been cleared by reset_daily_pnl while the week's
\* loss is still over its limit
C34_Witness ==
    /\ last_op.op = "reset_daily_pnl"
    /\ last_op.cause_in = "daily_loss"
    /\ ~risk.is_halted
    /\ risk.halt_reason = None
    /\ risk.weekly_pnl <= -max_daily

\* C35 as stated: in every state reached through update_pnl, can_trade,
\* validate_trade and period rollovers only (no manual halt, clear_halt or
\* reset_daily_pnl), a can_trade call that leaves daily_pnl, weekly_pnl or
\* monthly_pnl at or below its loss limit returns false.
C35_BreachBlocksTrading ==
    (manual_ops = 0 /\ AnyBreached(CanTrade(risk, now).state))
        => ~CanTrade(risk, now).ok

\* C36 as stated: a tracked position that has become CLOSED or EXPIRED never
\* changes status or realized_pnl again, under every interleaving of
\* close_position with the resolution check iterating its list of open
\* positions.
C36_ClosedIsFinal ==
    [][\A i \in ClosedPositions(positions) :
          /\ positions'[i].status = positions[i].status
          /\ positions'[i].realized_pnl = positions[i].realized_pnl]_vars

ClearHaltSucceeds ==
    /\ EngineClearHalt
    /\ engine_is_halted
    /\ ~engine_is_halted'

C39_DisabledNeverRuns ==
    [][TaskStarts => tasks[Head(due_tasks)].enabled]_vars

\* Sum of the numbers of a sequence
RECURSIVE SumFills(_)
SumFills(amounts) ==
    IF amounts = <<>> THEN 0 ELSE Head(amounts) + SumFills(Tail(amounts))

\* The quantities of the fill events of an order: FillEvent.quantity is
\* size / price
FillQuantities(order) ==
    [i \in DOMAIN order.fill_events |-> (order.fill_events[i] * 100) \div OrderPrice]

\* C40: for every monitored order filled_size never decreases and is the sum
\* of the sizes of its recorded fill events, filled_quantity is the sum of
\* their quantities, and average_fill_price is filled_size / filled_quantity
\* whenever filled_quantity > 0.
C40_FillAccounting ==
    /\ [](\A o \in DOMAIN orders :
            /\ orders[o].filled_size = SumFills(orders[o].fill_events)
            /\ orders[o].filled_quantity = SumFills(FillQuantities(orders[o]))
            /\ orders[o].filled_quantity > 0 =>
                  orders[o].average_fill_price =
                      (orders[o].filled_size * 100) \div orders[o].filled_quantity)
    /\ [][\A o \in DOMAIN orders \cap DOMAIN orders' :
             orders'[o].filled_size >= orders[o].filled_size]_vars

\* An order of 10 dollars at 0.50 has been filled in two reports of 5 dollars:
\* two fill events, 20 tokens, average price 0.50
C40_Witness ==
    \E o \in DOMAIN orders :
        /\ orders[o].fill_events = <<FillStep, FillStep>>
        /\ orders[o].filled_size = OrderSize
        /\ orders[o].filled_quantity = 20
        /\ orders[o].average_fill_price = OrderPrice

============================================================================
